---- MODULE Spec2Model ----
(***************************************************************************)
(* A model of shakelib/grind/multigmpe.py: the weighted combination of     *)
(* ground-motion models (MultiGMPE), its distance blending                 *)
(* (DualDistanceWeights, CUTOFF_DISTANCE) and the period/measure filter    *)
(* (filter_gmpe_list).                                                     *)
(*                                                                         *)
(* Floating-point values are modelled as exact rationals [n, d] (d > 0),   *)
(* together with the IEEE special values NaN ([0,0]) and +/-Inf ([+-1,0]). *)
(* A standard deviation is stored as its square: Sqrt and Square convert.  *)
(***************************************************************************)
EXTENDS Integers, Sequences, FiniteSets, TLC

None == "None"

(***************************************************************************)
(* Numbers                                                                 *)
(***************************************************************************)
Abs(x) == IF x < 0 THEN -x ELSE x

Sign(x) == IF x < 0 THEN -1 ELSE IF x > 0 THEN 1 ELSE 0

RECURSIVE GCD(_, _)
GCD(a, b) == IF b = 0 THEN a ELSE GCD(b, a % b)

LCM(a, b) == (a \div GCD(a, b)) * b

NaN == [n |-> 0, d |-> 0]

Inf(s) == [n |-> s, d |-> 0]

Rat(n, d) ==
    IF d = 0 THEN [n |-> Sign(n), d |-> 0]
    ELSE LET g == GCD(Abs(n), Abs(d))
             s == Sign(d)
         IN  [n |-> s * (n \div g), d |-> s * (d \div g)]

Int2Num(k) == [n |-> k, d |-> 1]

IsNaN(x) == x.d = 0 /\ x.n = 0

IsInf(x) == x.d = 0 /\ x.n # 0

IsFinite(x) == x.d > 0

Zero == Int2Num(0)

One == Int2Num(1)

Neg(x) == [n |-> -x.n, d |-> x.d]

Add(x, y) ==
    IF IsNaN(x) \/ IsNaN(y) THEN NaN
    ELSE IF IsInf(x) /\ IsInf(y) THEN (IF x.n = y.n THEN x ELSE NaN)
    ELSE IF IsInf(x) THEN x
    ELSE IF IsInf(y) THEN y
    ELSE LET l == LCM(x.d, y.d)
         IN  Rat(x.n * (l \div x.d) + y.n * (l \div y.d), l)

Sub(x, y) == Add(x, Neg(y))

Mul(x, y) ==
    IF IsNaN(x) \/ IsNaN(y) THEN NaN
    ELSE IF IsInf(x) \/ IsInf(y)
         THEN (IF x.n = 0 \/ y.n = 0 THEN NaN ELSE Inf(Sign(x.n) * Sign(y.n)))
    ELSE LET g1 == GCD(Abs(x.n), y.d)
             g2 == GCD(Abs(y.n), x.d)
         IN  [n |-> (x.n \div g1) * (y.n \div g2),
              d |-> (x.d \div g2) * (y.d \div g1)]

Div(x, y) ==
    IF IsNaN(x) \/ IsNaN(y) THEN NaN
    ELSE IF IsInf(y) THEN (IF IsInf(x) THEN NaN ELSE Zero)
    ELSE IF y.n = 0 THEN (IF x.n = 0 THEN NaN ELSE Inf(Sign(x.n)))
    ELSE IF IsInf(x) THEN Inf(Sign(x.n) * Sign(y.n))
    ELSE Mul(x, Rat(y.d, y.n))

\* x > y as IEEE compares: FALSE whenever an operand is NaN
Gt(x, y) ==
    IF IsNaN(x) \/ IsNaN(y) THEN FALSE
    ELSE LET z == Sub(x, y) IN ~IsNaN(z) /\ z.n > 0

Ne(x, y) == IsNaN(x) \/ IsNaN(y) \/ x # y

AbsNum(x) == [n |-> Abs(x.n), d |-> x.d]

\* np.sqrt on the squared representation of a standard deviation: the root
\* of a negative number is NaN, the root of x >= 0 is the value whose
\* square is x
Sqrt(x) == IF IsNaN(x) \/ x.n < 0 THEN NaN ELSE x

\* sd ** 2 on the squared representation
Square(sd) == sd

\* the squared representation of a non-negative standard deviation s
SdOf(s) == Int2Num(s * s)

RECURSIVE SumSeq(_)
SumSeq(s) == IF s = <<>> THEN Zero ELSE Add(Head(s), SumSeq(Tail(s)))

(***************************************************************************)
(* Intensity measures, and the capability attributes of the member models  *)
(* (the OpenQuake GMPE classes) that the code reads.  Periods are in units *)
(* of 0.1 s.  Four representative leaf models:                             *)
(*   gA  has a site term, native PGV, site-dependent sigma                 *)
(*   gB  has a site term, no PGV, periods up to 2.0 s                      *)
(*   gC  no site term, no PGV                                              *)
(*   gD  no site term, native PGV, periods 0.2-0.5 s only, no PGA          *)
(***************************************************************************)
PGA == [name |-> "PGA", period |-> 0]

PGV == [name |-> "PGV", period |-> 0]

SA(p) == [name |-> "SA", period |-> p]

LeafNames == {"gA", "gB", "gC", "gD"}

Catalog ==
    [g \in LeafNames |->
       CASE g = "gA" ->
              [DEFINED_FOR_TECTONIC_REGION_TYPE |-> "ACR",
               DEFINED_FOR_INTENSITY_MEASURE_TYPES |-> {"PGA", "PGV", "SA"},
               DEFINED_FOR_INTENSITY_MEASURE_COMPONENT |-> "RotD50",
               DEFINED_FOR_STANDARD_DEVIATION_TYPES |-> {"Total", "Inter", "Intra"},
               REQUIRES_SITES_PARAMETERS |-> {"vs30", "z1pt0"},
               sa_coeffs |-> {1, 10, 30},
               non_sa_coeffs |-> {"PGA", "PGV"}]
         [] g = "gB" ->
              [DEFINED_FOR_TECTONIC_REGION_TYPE |-> "ACR",
               DEFINED_FOR_INTENSITY_MEASURE_TYPES |-> {"PGA", "SA"},
               DEFINED_FOR_INTENSITY_MEASURE_COMPONENT |-> "AVG",
               DEFINED_FOR_STANDARD_DEVIATION_TYPES |-> {"Total", "Inter"},
               REQUIRES_SITES_PARAMETERS |-> {"vs30"},
               sa_coeffs |-> {1, 10, 20},
               non_sa_coeffs |-> {"PGA"}]
         [] g = "gC" ->
              [DEFINED_FOR_TECTONIC_REGION_TYPE |-> "SUB",
               DEFINED_FOR_INTENSITY_MEASURE_TYPES |-> {"PGA", "SA"},
               DEFINED_FOR_INTENSITY_MEASURE_COMPONENT |-> "Larger",
               DEFINED_FOR_STANDARD_DEVIATION_TYPES |-> {"Total"},
               REQUIRES_SITES_PARAMETERS |-> {},
               sa_coeffs |-> {1, 10, 30},
               non_sa_coeffs |-> {"PGA"}]
         [] OTHER ->
              [DEFINED_FOR_TECTONIC_REGION_TYPE |-> "SUB",
               DEFINED_FOR_INTENSITY_MEASURE_TYPES |-> {"PGV", "SA"},
               DEFINED_FOR_INTENSITY_MEASURE_COMPONENT |-> "AVG",
               DEFINED_FOR_STANDARD_DEVIATION_TYPES |-> {"Total", "Inter"},
               REQUIRES_SITES_PARAMETERS |-> {},
               sa_coeffs |-> {2, 5},
               non_sa_coeffs |-> {"PGV"}]]

SetMax(S) == CHOOSE x \in S : \A y \in S : y <= x

SetMin(S) == CHOOSE x \in S : \A y \in S : x <= y

\* a member of a model set: a leaf model of the catalog, a nested MultiGMPE,
\* or an object that is not a GMPE instance
Leaf(g) == [kind |-> "leaf", name |-> g]

Nested(m) == [kind |-> "set", obj |-> m]

NotAGmpe == [kind |-> "other"]

IsGMPE(m) == m.kind \in {"leaf", "set"}

Attr(m) == IF m.kind = "leaf" THEN Catalog[m.name] ELSE m.obj

\* an optional argument: a value, or Python's None
Some(v) == [given |-> TRUE, val |-> v]

Absent == [given |-> FALSE, val |-> <<>>]

Range(s) == {s[i] : i \in DOMAIN s}

(***************************************************************************)
(* MultiGMPE.from_list                                                     *)
(***************************************************************************)
\* the denominator of the weight-sum tolerance 1e-7
TolDen == 10000000

Tol == Rat(1, TolDen)

REFERENCE_VS30_DEFAULT == 760

NoObj == [GMPES |-> <<>>]

Raise(msg) == [ok |-> FALSE, err |-> msg, obj |-> NoObj]

Return(o) == [ok |-> TRUE, err |-> "", obj |-> o]

\* np.abs(np.sum(weights) - 1.0) > 1e-7
WeightSumOff(weights) ==
    \E sum \in {SumSeq(weights)} :
       \E off \in {AbsNum(Sub(sum, One))} : Gt(off, Tol)

\* a variant of HasSiteTerm that takes every model to have a site term
HasSiteTermAlways(g) == TRUE

HasSiteTerm(g) == "vs30" \in Attr(g).REQUIRES_SITES_PARAMETERS

\* [1/n]*n
EqualWeights(n) == [i \in 1..n |-> Rat(1, n)]

from_list(gmpes, weights, imc, default_gmpes_for_site, default_gmpes_for_site_weights, reference_vs30) ==
    IF WeightSumOff(weights)
    THEN Raise("Weights must sum to one.")
    ELSE IF Len(weights) # Len(gmpes)
    THEN Raise("Length of weights must match length of GMPE list.")
    ELSE IF \E i \in DOMAIN gmpes : ~IsGMPE(gmpes[i])
    THEN Raise("is not a GMPE instance.")
    ELSE
    LET n == Len(gmpes)
        HAS_SITE == [i \in 1..n |-> HasSiteTerm(gmpes[i])]
        allsite == \A i \in 1..n : HAS_SITE[i]
        dwts == IF default_gmpes_for_site.given
                   /\ ~default_gmpes_for_site_weights.given
                THEN Some(EqualWeights(Len(default_gmpes_for_site.val)))
                ELSE default_gmpes_for_site_weights
        self ==
          [GMPES |-> gmpes,
           WEIGHTS |-> weights,
           DEFINED_FOR_TECTONIC_REGION_TYPE |-> None,
           DEFINED_FOR_INTENSITY_MEASURE_TYPES |->
              UNION {Attr(gmpes[i]).DEFINED_FOR_INTENSITY_MEASURE_TYPES : i \in 1..n},
           ALL_GMPES_HAVE_PGV |->
              \A i \in 1..n : "PGV" \in Attr(gmpes[i]).DEFINED_FOR_INTENSITY_MEASURE_TYPES,
           IMCs |-> [i \in 1..n |-> Attr(gmpes[i]).DEFINED_FOR_INTENSITY_MEASURE_COMPONENT],
           DEFINED_FOR_INTENSITY_MEASURE_COMPONENT |-> imc,
           DEFINED_FOR_STANDARD_DEVIATION_TYPES |->
              {t \in Attr(gmpes[1]).DEFINED_FOR_STANDARD_DEVIATION_TYPES :
                 \A i \in 1..n : t \in Attr(gmpes[i]).DEFINED_FOR_STANDARD_DEVIATION_TYPES},
           REQUIRES_SITES_PARAMETERS |->
              UNION {Attr(gmpes[i]).REQUIRES_SITES_PARAMETERS : i \in 1..n} \cup {"vs30"},
           HAS_SITE |-> HAS_SITE,
           DEFAULT_GMPES_FOR_SITE |-> default_gmpes_for_site,
           DEFAULT_GMPES_FOR_SITE_WEIGHTS |-> dwts,
           REFERENCE_VS30 |-> reference_vs30,
           HAS_CUTOFF_DISTANCE |-> FALSE,
           CUTOFF_DISTANCE |-> 0,
           WEIGHTS_LARGE_DISTANCE |-> Absent]
    IN  IF default_gmpes_for_site.given
           /\ \E i \in DOMAIN default_gmpes_for_site.val :
                 ~IsGMPE(default_gmpes_for_site.val[i])
        THEN Raise("is not a GMPE instance.")
        \* [1/n]*n with n = 0
        ELSE IF default_gmpes_for_site.given
                /\ ~default_gmpes_for_site_weights.given
                /\ Len(default_gmpes_for_site.val) = 0
        THEN Raise("ZeroDivisionError: division by zero")
        ELSE IF ~allsite /\ ~default_gmpes_for_site.given
        THEN Raise("Must provide default_gmpes_for_site if one or more GMPE does not have site term.")
        ELSE IF ~allsite /\ Len(dwts.val) # Len(default_gmpes_for_site.val)
        THEN Raise("Length of default_gmpes_for_site_weights must match length of default_gmpes_for_site list.")
        ELSE IF ~allsite /\ Ne(SumSeq(dwts.val), One)
        THEN Raise("default_gmpes_for_site_weights must sum to one.")
        ELSE Return(self)

(***************************************************************************)
(* filter_gmpe_list                                                        *)
(***************************************************************************)
get_gmpe_coef_table(g) == Catalog[g.name]

get_gmpe_sa_periods(g) == get_gmpe_coef_table(g).sa_coeffs

Indices(s) == [i \in 1..Len(s) |-> i]

\* a variant of Applicable that compares periods strictly
ApplicableStrictly(g, imt) ==
    LET per_max == SetMax(get_gmpe_sa_periods(g))
        per_min == SetMin(get_gmpe_sa_periods(g))
    IN  IF imt = PGA
        THEN "PGA" \in get_gmpe_coef_table(g).non_sa_coeffs
        ELSE IF imt = PGV
        THEN "PGV" \in get_gmpe_coef_table(g).non_sa_coeffs
             \/ (per_max > 10 /\ per_min < 10)
        ELSE per_max > imt.period /\ per_min < imt.period

\* the condition under which filter_gmpe_list keeps gmpe g for imt
Applicable(g, imt) ==
    LET per_max == SetMax(get_gmpe_sa_periods(g))
        per_min == SetMin(get_gmpe_sa_periods(g))
    IN  IF imt = PGA
        THEN "PGA" \in get_gmpe_coef_table(g).non_sa_coeffs
        ELSE IF imt = PGV
        THEN "PGV" \in get_gmpe_coef_table(g).non_sa_coeffs
             \/ (per_max >= 10 /\ per_min <= 10)
        ELSE per_max >= imt.period /\ per_min <= imt.period

\* swts / np.sum(swts)
ScaleWeights(swts) == [i \in 1..Len(swts) |-> Div(swts[i], SumSeq(swts))]

FilterRaise(msg) == [ok |-> FALSE, err |-> msg, gmpes |-> <<>>, wts |-> <<>>]

filter_gmpe_list(gmpes, wts, imt) ==
    LET keep(i) == Applicable(gmpes[i], imt)
        kept == SelectSeq(Indices(gmpes), keep)
        sgmpe == [k \in 1..Len(kept) |-> gmpes[kept[k]]]
        \* the PGA branch pairs by zip (which stops at the shorter list);
        \* the other branches index wts[i]
        inwts(i) == i <= Len(wts)
        keptw == SelectSeq(kept, inwts)
        swts == [k \in 1..Len(keptw) |-> wts[keptw[k]]]
    IN  IF imt # PGA /\ Len(keptw) # Len(kept)
        THEN FilterRaise("IndexError: list index out of range")
        ELSE IF Len(sgmpe) = 0
        THEN FilterRaise("NameError: name 'val' is not defined")
        ELSE [ok |-> TRUE, err |-> "", gmpes |-> sgmpe,
              wts |-> ScaleWeights(swts)]

(***************************************************************************)
(* The member models' predictions (external library) and the conversions.  *)
(* A context holds the flattened per-site arrays vs30 and rjb.             *)
(***************************************************************************)
NSitesOf(ctx) == Len(ctx.vs30)

Vec(n, x) == [k \in 1..n |-> x]

VecAdd(a, b) == [k \in 1..Len(a) |-> Add(a[k], b[k])]

VecSub(a, b) == [k \in 1..Len(a) |-> Sub(a[k], b[k])]

VecScale(w, a) == [k \in 1..Len(a) |-> Mul(w, a[k])]

VecSq(a) == [k \in 1..Len(a) |-> Mul(a[k], a[k])]

ImtTerm(imt) ==
    IF imt = PGA THEN 0 ELSE IF imt = PGV THEN 3
    ELSE IF imt.period = 10 THEN -1 ELSE -2

LeafBase(g) == CASE g = "gA" -> 2 [] g = "gB" -> 3 [] g = "gC" -> 1 [] OTHER -> 0

\* the site amplification of a leaf model with a site term: zero on
\* reference rock (vs30 = 760), positive on softer ground
LeafSiteTerm(g, vs30) ==
    IF "vs30" \notin Catalog[g].REQUIRES_SITES_PARAMETERS THEN 0
    ELSE IF g = "gA" THEN (760 - vs30) \div 400
    ELSE 2 * ((760 - vs30) \div 400)

LeafMean(g, imt, vs30, rjb) ==
    LeafBase(g) + ImtTerm(imt) - (rjb \div 30) + LeafSiteTerm(g, vs30)

\* a leaf's standard deviation of one type; that of a model with a site
\* term depends on the site
LeafSigma(g, type, imt, vs30) ==
    LET soft == IF "vs30" \in Catalog[g].REQUIRES_SITES_PARAMETERS /\ vs30 < 760
                THEN 1 ELSE 0
    IN  IF type = "Total" THEN 2 + soft
        ELSE IF type = "Inter" THEN 1
        ELSE 1 + soft

LeafSupports(g, imt) ==
    LET c == Catalog[g]
    IN  /\ imt.name \in c.DEFINED_FOR_INTENSITY_MEASURE_TYPES
        /\ imt.name = "SA" =>
             /\ SetMin(c.sa_coeffs) <= imt.period
             /\ imt.period <= SetMax(c.sa_coeffs)

EvalRaise(msg, log) == [ok |-> FALSE, err |-> msg, mean |-> <<>>, sd |-> <<>>, log |-> log]

Ev(step, who, imt) == [step |-> step, gmpe |-> who, imt |-> imt]

\* gmpe.get_mean_and_stddevs of a leaf model
LeafEval(g, ctx, imt, types) ==
    LET n == NSitesOf(ctx)
        log == <<Ev("eval", g, imt)>>
    IN  IF ~LeafSupports(g, imt)
        THEN EvalRaise("KeyError: imt not supported by the GMPE", log)
        ELSE IF \E j \in DOMAIN types :
                  types[j] \notin Catalog[g].DEFINED_FOR_STANDARD_DEVIATION_TYPES
        THEN EvalRaise("stddev type not supported by the GMPE", log)
        ELSE [ok |-> TRUE, err |-> "",
              mean |-> [k \in 1..n |-> Int2Num(LeafMean(g, imt, ctx.vs30[k], ctx.rjb[k]))],
              sd |-> [j \in 1..Len(types) |->
                        [k \in 1..n |-> SdOf(LeafSigma(g, types[j], imt, ctx.vs30[k]))]],
              log |-> log]

\* NewmarkHall1982.psa102pgv: PGV from 1.0 s spectral acceleration and
\* its standard deviation, by a fixed relation
NH_LNFACT == 4

NH_VAR == 1

psa102pgv(psa10, sigma) ==
    [mean |-> [k \in 1..Len(psa10) |-> Add(psa10[k], Int2Num(NH_LNFACT))],
     sd |-> [k \in 1..Len(sigma) |-> Sqrt(Add(Square(sigma[k]), Int2Num(NH_VAR)))]]

\* BeyerBommer2006: log ratio of a component convention to the geometric
\* mean, and the variance it adds
ImcLnRatio(imc, imt) ==
    IF imc = "Larger" THEN (IF imt = PGV THEN 3 ELSE 2)
    ELSE IF imc = "RotD50" THEN 1 ELSE 0

ImcVar(imc) == IF imc = "Larger" THEN 1 ELSE 0

ampIMCtoIMC(amp, imc_in, imc_out, imt) ==
    Add(amp, Int2Num(ImcLnRatio(imc_out, imt) - ImcLnRatio(imc_in, imt)))

sigmaIMCtoIMC(sigma, imc_in, imc_out, imt) ==
    Sqrt(Add(Square(sigma), Int2Num(ImcVar(imc_out) - ImcVar(imc_in))))

(***************************************************************************)
(* MultiGMPE.get_mean_and_stddevs, __get_mean_and_stddevs and              *)
(* get_site_factors on flattened arrays.  A result carries the log of the  *)
(* steps taken, in order.                                                  *)
(***************************************************************************)
RECURSIVE get_mean_and_stddevs(_, _, _, _)
RECURSIVE get_site_factors(_, _, _, _)
RECURSIVE MemberTerm(_, _, _, _, _)
RECURSIVE MemberLoop(_, _, _, _, _, _, _)
RECURSIVE Combine(_, _, _, _, _)

\* a value computed once and used under a name
With(v, F(_)) == F(v)

\* list(tmp.DEFINED_FOR_STANDARD_DEVIATION_TYPES)
TypeList(S) ==
    SelectSeq(<<"Total", "Inter", "Intra">>, LAMBDA t : t \in S)

\* a variant of Stomp that overwrites at the cutoff distance as well
StompFromCutoff(small, large, rjb, dist_cutoff) ==
    [k \in 1..Len(small) |->
       IF rjb[k] >= dist_cutoff THEN large[k] ELSE small[k]]

\* lnmu[dists.rjb > dist_cutoff] = lnmu_large[dists.rjb > dist_cutoff]
Stomp(small, large, rjb, dist_cutoff) ==
    [k \in 1..Len(small) |->
       IF rjb[k] > dist_cutoff THEN large[k] ELSE small[k]]

\* the public method: the near-field combination, overwritten beyond the
\* cutoff distance by the far-field one when CUTOFF_DISTANCE is set
get_mean_and_stddevs(self, ctx, imt, stddev_types) ==
    With(Combine(self, ctx, imt, stddev_types, FALSE), LAMBDA near :
      IF ~near.ok \/ ~self.HAS_CUTOFF_DISTANCE THEN near
      ELSE With(Combine(self, ctx, imt, stddev_types, TRUE), LAMBDA far :
        IF ~far.ok
        THEN EvalRaise(far.err, near.log \o far.log)
        ELSE [ok |-> TRUE, err |-> "",
              mean |-> Stomp(near.mean, far.mean, ctx.rjb,
                             self.CUTOFF_DISTANCE),
              sd |-> [j \in 1..Len(near.sd) |->
                        Stomp(near.sd[j], far.sd[j], ctx.rjb,
                              self.CUTOFF_DISTANCE)],
              log |-> near.log \o far.log]))

\* a variant of RefSites that keeps the sites' own vs30
RefSitesSame(sites, reference_vs30) == sites

\* ref_sites: a copy of the sites with every vs30 set to the reference
RefSites(sites, reference_vs30) ==
    [sites EXCEPT !.vs30 = Vec(Len(@), reference_vs30)]

\* a variant of TmpSet that hands the set's own default site models on to
\* the set it builds
TmpSetWithDefaults(self, default) ==
    IF default
    THEN IF self.DEFAULT_GMPES_FOR_SITE.given
         THEN from_list(self.DEFAULT_GMPES_FOR_SITE.val,
                        self.DEFAULT_GMPES_FOR_SITE_WEIGHTS.val,
                        self.DEFINED_FOR_INTENSITY_MEASURE_COMPONENT,
                        self.DEFAULT_GMPES_FOR_SITE,
                        self.DEFAULT_GMPES_FOR_SITE_WEIGHTS,
                        REFERENCE_VS30_DEFAULT)
         ELSE Raise("TypeError: from_list(None, None)")
    ELSE Return(self)

\* tmp: the set of the default site models when default is True, self
\* otherwise
TmpSet(self, default) ==
    IF default
    THEN IF self.DEFAULT_GMPES_FOR_SITE.given
         THEN from_list(self.DEFAULT_GMPES_FOR_SITE.val,
                        self.DEFAULT_GMPES_FOR_SITE_WEIGHTS.val,
                        self.DEFINED_FOR_INTENSITY_MEASURE_COMPONENT,
                        Absent, Absent, REFERENCE_VS30_DEFAULT)
         ELSE Raise("TypeError: from_list(None, None)")
    ELSE Return(self)

get_site_factors(self, ctx, imt, default) ==
    With(TmpSet(self, default), LAMBDA made :
      With(<<Ev("site_factors", "default", imt)>>, LAMBDA log0 :
        IF ~made.ok THEN EvalRaise(made.err, log0)
        ELSE
        With(TypeList(made.obj.DEFINED_FOR_STANDARD_DEVIATION_TYPES), LAMBDA types :
        With(get_mean_and_stddevs(made.obj, ctx, imt, types), LAMBDA r :
          IF ~r.ok THEN EvalRaise(r.err, log0 \o r.log)
          ELSE
          With(get_mean_and_stddevs(made.obj,
                 RefSites(ctx, self.REFERENCE_VS30), imt, types), LAMBDA rr :
            IF ~rr.ok THEN EvalRaise(rr.err, log0 \o r.log \o rr.log)
            ELSE [ok |-> TRUE, err |-> "",
                  mean |-> VecSub(r.mean, rr.mean),
                  sd |-> <<>>,
                  log |-> log0 \o r.log \o rr.log])))))

\* gmpe.get_mean_and_stddevs of member gmpe: a leaf of the catalog or a
\* nested MultiGMPE
GmpeEval(gmpe, ctx, imt, stddev_types) ==
    IF gmpe.kind = "leaf"
    THEN LeafEval(gmpe.name, ctx, imt, stddev_types)
    ELSE get_mean_and_stddevs(gmpe.obj, ctx, imt, stddev_types)

NoFactors(n) ==
    [ok |-> TRUE, err |-> "", mean |-> Vec(n, Zero), sd |-> <<>>, log |-> <<>>]

WhoIs(gmpe) == IF gmpe.kind = "leaf" THEN gmpe.name ELSE "set"

\* a variant of Converted that enters the conversion in the log before the
\* steps already taken
ConvertedFirst(gmpe, imc_out, imt, n, nt, mean, sd, log) ==
    [ok |-> TRUE, err |-> "",
     mean |-> [k \in 1..n |->
                 ampIMCtoIMC(mean[k],
                             Attr(gmpe).DEFINED_FOR_INTENSITY_MEASURE_COMPONENT,
                             imc_out, imt)],
     sd |-> [j \in 1..nt |-> [k \in 1..n |->
                 sigmaIMCtoIMC(sd[j][k],
                               Attr(gmpe).DEFINED_FOR_INTENSITY_MEASURE_COMPONENT,
                               imc_out, imt)]],
     log |-> <<Ev("imc", WhoIs(gmpe), imt)>> \o log]

\* the component-convention conversion of a member's mean and standard
\* deviations, entered in the log
Converted(gmpe, imc_out, imt, n, nt, mean, sd, log) ==
    [ok |-> TRUE, err |-> "",
     mean |-> [k \in 1..n |->
                 ampIMCtoIMC(mean[k],
                             Attr(gmpe).DEFINED_FOR_INTENSITY_MEASURE_COMPONENT,
                             imc_out, imt)],
     sd |-> [j \in 1..nt |-> [k \in 1..n |->
                 sigmaIMCtoIMC(sd[j][k],
                               Attr(gmpe).DEFINED_FOR_INTENSITY_MEASURE_COMPONENT,
                               imc_out, imt)]],
     log |-> Append(log, Ev("imc", WhoIs(gmpe), imt))]

\* one pass of the loop over self.GMPES, up to the accumulation: the
\* member's mean and standard deviations as they enter the weighted sums
MemberTerm(self, i, ctx, imt, stddev_types) ==
    With(self.GMPES[i], LAMBDA gmpe :
    With(NSitesOf(ctx), LAMBDA n :
    With(Len(stddev_types), LAMBDA nt :
    With(imt = PGV
         /\ "PGV" \notin Attr(gmpe).DEFINED_FOR_INTENSITY_MEASURE_TYPES,
         LAMBDA viaPSA10 :
    With(IF viaPSA10 THEN SA(10) ELSE imt, LAMBDA eimt :
    With(IF self.HAS_SITE[i] THEN NoFactors(n)
         ELSE get_site_factors(self, ctx, eimt, TRUE), LAMBDA lamps :
      IF ~lamps.ok THEN EvalRaise(lamps.err, lamps.log)
      ELSE
      With(GmpeEval(gmpe, ctx, eimt, stddev_types), LAMBDA ev :
      With(lamps.log \o ev.log, LAMBDA log1 :
        IF ~ev.ok THEN EvalRaise(ev.err, log1)
        ELSE
        With(IF self.HAS_SITE[i] THEN log1
             ELSE Append(log1, Ev("add_site", WhoIs(gmpe), eimt)), LAMBDA log2 :
        With(VecAdd(ev.mean, lamps.mean), LAMBDA sited :
          IF ~viaPSA10
          THEN Converted(gmpe, self.DEFINED_FOR_INTENSITY_MEASURE_COMPONENT,
                         imt, n, nt, sited, ev.sd, log2)
          ELSE IF nt = 0
          THEN EvalRaise("IndexError: psa10sd[0]", log2)
          ELSE
          With(psa102pgv(sited, ev.sd[1]), LAMBDA pgv :
          With(Append(log2, Ev("psa102pgv", WhoIs(gmpe), imt)), LAMBDA log3 :
            \* lsd is one array here: lsd[j] is its element j
            IF nt > n
            THEN EvalRaise("IndexError: lsd[j]", log3)
            ELSE Converted(gmpe, self.DEFINED_FOR_INTENSITY_MEASURE_COMPONENT,
                           imt, n, nt, pgv.mean,
                           [j \in 1..nt |-> Vec(n, pgv.sd[j])], log3)))))))))))))

\* lnmu + wts[i] * lmean and lnsd2[j] + wts[i] * (lmean**2 + lsd[j]**2)
Accumulate(acc, w, t, nt, ev) ==
    [ok |-> FALSE, err |-> "",
     mean |-> VecAdd(acc.mean, VecScale(w, t.mean)),
     sd |-> [j \in 1..nt |->
               VecAdd(acc.sd[j],
                      VecScale(w, VecAdd(VecSq(t.mean),
                                 [k \in 1..Len(t.mean) |-> Square(t.sd[j][k])])))],
     log |-> Append(acc.log \o t.log, ev)]

\* the loop over self.GMPES from member i on; acc holds lnmu, lnsd2 and
\* the log so far
MemberLoop(self, ctx, imt, stddev_types, wts, i, acc) ==
    IF i > Len(self.GMPES) THEN [acc EXCEPT !.ok = TRUE]
    ELSE
    With(MemberTerm(self, i, ctx, imt, stddev_types), LAMBDA t :
      IF ~t.ok THEN EvalRaise(t.err, acc.log \o t.log)
      ELSE IF ~wts.given
      THEN EvalRaise("TypeError: 'NoneType' object is not subscriptable",
                     acc.log \o t.log)
      ELSE IF i > Len(wts.val)
      THEN EvalRaise("IndexError: wts[i]", acc.log \o t.log)
      ELSE MemberLoop(self, ctx, imt, stddev_types, wts, i + 1,
             Accumulate(acc, wts.val[i], t, Len(stddev_types),
                        Ev("accumulate", WhoIs(self.GMPES[i]), imt))))

\* lnsd2[j] - lnmu**2 and np.sqrt
Finish(r, n, nt) ==
    [ok |-> TRUE, err |-> "",
     mean |-> r.mean,
     sd |-> [j \in 1..nt |-> [k \in 1..n |->
               Sqrt(Sub(r.sd[j][k], Mul(r.mean[k], r.mean[k])))]],
     log |-> r.log]

\* a variant of SdAvailable that asks for one available type only
SdAvailableSome(sd_avail, stddev_types) ==
    stddev_types = <<>> \/ Range(stddev_types) \cap sd_avail # {}

\* sd_avail.issuperset(set(stddev_types))
SdAvailable(sd_avail, stddev_types) == Range(stddev_types) \subseteq sd_avail

\* __get_mean_and_stddevs between the flattening and the restoring of the
\* input arrays
Combine(self, ctx, imt, stddev_types, large_dist) ==
    IF ~SdAvailable(self.DEFINED_FOR_STANDARD_DEVIATION_TYPES, stddev_types)
    THEN EvalRaise("Requested an unavailable stddev_type.", <<>>)
    ELSE
    With(MemberLoop(self, ctx, imt, stddev_types,
           IF large_dist THEN self.WEIGHTS_LARGE_DISTANCE
           ELSE Some(self.WEIGHTS),
           1,
           [ok |-> FALSE, err |-> "", mean |-> Vec(NSitesOf(ctx), Zero),
            sd |-> [j \in 1..Len(stddev_types) |-> Vec(NSitesOf(ctx), Zero)],
            log |-> <<>>]), LAMBDA r :
      IF ~r.ok THEN r ELSE Finish(r, NSitesOf(ctx), Len(stddev_types)))

(***************************************************************************)
(* MultiGMPE.from_config and DualDistanceWeights.from_set_name             *)
(***************************************************************************)
Leaves(names) == [i \in 1..Len(names) |-> Leaf(names[i])]

\* an optional configuration entry, None when it is absent or empty
Entry(e) == IF e.given /\ e.val # <<>> THEN e ELSE Absent

\* one pass of the loop over selected_gmpe_sets: the sub-set of conf s
SubSet(s, IMC) ==
    With(from_list(Leaves(s.gmpes), s.weights, IMC,
                   IF Entry(s.site_gmpes).given
                   THEN Some(Leaves(s.site_gmpes.val)) ELSE Absent,
                   \* [conf[...]['weights_site_gmpes']]: the configured value
                   \* (one number) wrapped in a list
                   IF s.weights_site_gmpes.given /\ s.weights_site_gmpes.val # Zero
                   THEN Some(<<s.weights_site_gmpes.val>>) ELSE Absent,
                   REFERENCE_VS30_DEFAULT), LAMBDA m :
      IF ~m.ok \/ ~s.dist_cutoff.given \/ IsNaN(s.dist_cutoff.val) THEN m
      ELSE Return([m.obj EXCEPT
               !.HAS_CUTOFF_DISTANCE = TRUE,
               !.CUTOFF_DISTANCE = s.dist_cutoff.val.n,
               !.WEIGHTS_LARGE_DISTANCE = Entry(s.weights_large_dist)]))

FirstFailed(subs) ==
    subs[CHOOSE i \in DOMAIN subs : ~subs[i].ok /\ \A j \in 1..(i - 1) : subs[j].ok]

from_config(conf) ==
    IF conf.component \notin {"Larger", "RotD50"}
    THEN Raise("Unsupported component in config file.")
    ELSE
    With([i \in 1..Len(conf.sets) |-> SubSet(conf.sets[i], conf.component)],
         LAMBDA subs :
      IF \E i \in DOMAIN subs : ~subs[i].ok
      THEN FirstFailed(subs)
      ELSE from_list([i \in 1..Len(subs) |-> Nested(subs[i].obj)],
                     conf.weights, conf.component, Absent, Absent,
                     REFERENCE_VS30_DEFAULT))

NoDual == [mgmpe_small |-> NoObj, mgmpe_large |-> Absent, dist_cutoff |-> Absent]

DualRaise(msg) == [ok |-> FALSE, err |-> msg, obj |-> NoDual]

\* filter_gmpe_list when an imt is given, a copy of the lists otherwise
Filtered(gmpes, wts, imt) ==
    IF imt.given THEN filter_gmpe_list(gmpes, wts, imt.val)
    ELSE [ok |-> TRUE, err |-> "", gmpes |-> gmpes, wts |-> wts]

\* the MultiGMPE of a filtered list
ListOf(f, site_gmpes) ==
    IF ~f.ok THEN Raise(f.err)
    ELSE from_list(f.gmpes, f.wts, "Larger", site_gmpes, Absent,
                   REFERENCE_VS30_DEFAULT)

\* def is what the set's get_weights() returns: gmpes, wts, wts_large_dist,
\* dist_cutoff, site_gmpes; imt is the optional measure to filter for
from_set_name(def, imt) ==
    With(ListOf(Filtered(def.gmpes, def.wts, imt), def.site_gmpes),
         LAMBDA mgmpe_small :
      IF ~mgmpe_small.ok THEN DualRaise(mgmpe_small.err)
      ELSE IF ~def.wts_large_dist.given
      THEN [ok |-> TRUE, err |-> "",
            obj |-> [mgmpe_small |-> mgmpe_small.obj,
                     mgmpe_large |-> Absent, dist_cutoff |-> Absent]]
      ELSE
      With(ListOf(Filtered(def.gmpes, def.wts_large_dist.val, imt),
                  def.site_gmpes), LAMBDA mgmpe_large :
        IF ~mgmpe_large.ok THEN DualRaise(mgmpe_large.err)
        ELSE [ok |-> TRUE, err |-> "",
              obj |-> [mgmpe_small |-> mgmpe_small.obj,
                       mgmpe_large |-> Some(mgmpe_large.obj),
                       dist_cutoff |-> def.dist_cutoff]]))

(***************************************************************************)
(* The caller's parameter bundles.  A bundle records the shape of each of  *)
(* its array fields; the arrays' values are kept in flattened order.  The  *)
(* rupture bundle is only handed on to the member models; its magnitude is *)
(* a scalar (shape <<>>) unless said otherwise.                            *)
(***************************************************************************)
RECURSIVE Prod(_)
Prod(shape) == IF shape = <<>> THEN 1 ELSE Head(shape) * Prod(Tail(shape))

Checked(fields) == DOMAIN fields \ {"lons", "lats"}

ShapeSet(b) ==
    {b.sites.shape[f] : f \in Checked(b.sites.shape)}
      \cup {b.dists.shape[f] : f \in Checked(b.dists.shape)}

\* np.reshape(v, shape) of every field but lons and lats
ReshapeFields(fields, shape) ==
    [f \in DOMAIN fields |->
       IF f \in {"lons", "lats"} THEN fields[f] ELSE shape]

FlattenFields(fields) ==
    [f \in DOMAIN fields |->
       IF f \in {"lons", "lats"} THEN fields[f] ELSE <<Prod(fields[f])>>]

Flatten(b) == [b EXCEPT !.sites.shape = FlattenFields(@),
                        !.dists.shape = FlattenFields(@)]

\* a variant of Restore that leaves the arrays flattened
RestoreNothing(b, orig_shape) == b

Restore(b, orig_shape) ==
    [b EXCEPT !.sites.shape = ReshapeFields(@, orig_shape),
              !.dists.shape = ReshapeFields(@, orig_shape)]

DepthFields == {"z1pt0_cy14_cal", "z1pt0_ask14_cal", "z2pt5_cb14_cal",
                "z1pt0_cy08", "z2pt5_cb07"}

\* Sites._addDepthParameters adds the depth parameters, derived from vs30,
\* to the sites context it is given
set_sites_depth_parameters(b) ==
    [b EXCEPT !.sites.shape =
       [f \in DOMAIN @ \cup DepthFields |->
          IF f \in DOMAIN @ THEN @[f] ELSE @["vs30"]]]

CtxOf(b) == [vs30 |-> b.sites.vs30, rjb |-> b.dists.rjb]

Shaped(r, shape) ==
    [r EXCEPT !.mean = [shape |-> shape, data |-> r.mean],
              !.sd = [j \in 1..Len(r.sd) |-> [shape |-> shape, data |-> r.sd[j]]]]

ShapedRaise(r) == [r EXCEPT !.mean = [shape |-> <<>>, data |-> <<>>]]

\* the outcome of __get_mean_and_stddevs once the arrays are flattened: a
\* failure leaves them flattened, a success restores them and shapes the
\* output
Outcome(r, flat, orig_shape) ==
    IF ~r.ok
    THEN [res |-> ShapedRaise(r),
          b |-> IF r.log # <<>> THEN set_sites_depth_parameters(flat) ELSE flat]
    ELSE [res |-> Shaped(r, orig_shape),
          b |-> Restore(set_sites_depth_parameters(flat), orig_shape)]

\* MultiGMPE.__get_mean_and_stddevs on the caller's bundles b: the result
\* and the bundles as the call leaves them
PrivateCall(self, b, imt, stddev_types, large_dist) ==
    IF Cardinality(ShapeSet(b)) # 1
    THEN [res |-> ShapedRaise(EvalRaise(
                    "All sites and dists elements must have same shape.", <<>>)),
          b |-> b]
    ELSE Outcome(Combine(self, CtxOf(Flatten(b)), imt, stddev_types, large_dist),
                 Flatten(b), CHOOSE s \in ShapeSet(b) : TRUE)

\* lnmu[dists.rjb > dist_cutoff] = lnmu_large[dists.rjb > dist_cutoff] on
\* shaped arrays
StompShaped(small, large, rjb, dist_cutoff) ==
    [shape |-> small.shape,
     data |-> Stomp(small.data, large.data, rjb, dist_cutoff)]

\* the small-distance result overwritten by the large-distance one beyond
\* the cutoff
Stomped(small, large, dist_cutoff) ==
    [res |-> [ok |-> TRUE, err |-> "",
              mean |-> StompShaped(small.res.mean, large.res.mean,
                                   large.b.dists.rjb, dist_cutoff),
              sd |-> [j \in 1..Len(small.res.sd) |->
                        StompShaped(small.res.sd[j], large.res.sd[j],
                                    large.b.dists.rjb, dist_cutoff)],
              log |-> small.res.log \o large.res.log],
     b |-> large.b]

\* MultiGMPE.get_mean_and_stddevs on the caller's bundles
PublicCall(self, b, imt, stddev_types) ==
    With(PrivateCall(self, b, imt, stddev_types, FALSE), LAMBDA near :
      IF ~near.res.ok \/ ~self.HAS_CUTOFF_DISTANCE THEN near
      ELSE
      With(PrivateCall(self, near.b, imt, stddev_types, TRUE), LAMBDA far :
        IF ~far.res.ok
        THEN [far EXCEPT !.res.log = near.res.log \o far.res.log]
        ELSE Stomped(near, far, self.CUTOFF_DISTANCE)))

\* DualDistanceWeights.get_mean_and_stddevs on the caller's bundles
DualCall(self, b, imt, stddev_types) ==
    With(PublicCall(self.mgmpe_small, b, imt, stddev_types), LAMBDA small :
      IF ~small.res.ok \/ ~self.mgmpe_large.given THEN small
      ELSE
      With(PublicCall(self.mgmpe_large.val, small.b, imt, stddev_types),
           LAMBDA large :
        IF ~large.res.ok
        THEN [large EXCEPT !.res.log = small.res.log \o large.res.log]
        ELSE IF ~self.dist_cutoff.given
        THEN [res |-> ShapedRaise(EvalRaise("TypeError: dists.rjb > None",
                        small.res.log \o large.res.log)),
              b |-> large.b]
        ELSE Stomped(small, large, self.dist_cutoff.val)))

\* MultiGMPE.get_site_factors on the caller's bundles: the two evaluations
\* of tmp, on the caller's sites and on ref_sites, and their difference
SiteFactorsOf(made, self, b, imt) ==
    With(TypeList(made.DEFINED_FOR_STANDARD_DEVIATION_TYPES), LAMBDA types :
    With(PublicCall(made, b, imt, types), LAMBDA r :
      IF ~r.res.ok THEN r
      ELSE
      With(PublicCall(made,
             [r.b EXCEPT !.sites = RefSites(b.sites, self.REFERENCE_VS30)],
             imt, types), LAMBDA rr :
        [res |-> IF ~rr.res.ok
                 THEN [rr.res EXCEPT !.log = r.res.log \o rr.res.log]
                 ELSE [ok |-> TRUE, err |-> "",
                       mean |-> [shape |-> r.res.mean.shape,
                                 data |-> VecSub(r.res.mean.data,
                                                 rr.res.mean.data)],
                       sd |-> <<>>,
                       log |-> r.res.log \o rr.res.log],
         b |-> [rr.b EXCEPT !.sites = r.b.sites]])))

SiteFactorsOnBundles(self, b, imt, default) ==
    With(TmpSet(self, default), LAMBDA made :
      IF ~made.ok
      THEN [res |-> ShapedRaise(EvalRaise(made.err, <<>>)), b |-> b]
      ELSE SiteFactorsOf(made.obj, self, b, imt))

(***************************************************************************)
(* The state: the operation last performed with its arguments and its      *)
(* outcome, the model object constructed, the caller's bundles, and the    *)
(* stack of the calls in progress (empty between the client's calls).      *)
(***************************************************************************)
VARIABLES op, args, ret, obj, bundles, stack

vars == <<op, args, ret, obj, bundles, stack>>

\* bounds of the model
MaxMembers == 2

NSites == 2

SeqsUpTo(S, n) == UNION {[1..k -> S] : k \in 1..n}

NoBundles == [sites |-> [shape |-> [vs30 |-> <<0>>], vs30 |-> <<>>],
              rup |-> [shape |-> [mag |-> <<>>]],
              dists |-> [shape |-> [rjb |-> <<0>>], rjb |-> <<>>]]

NoModel == [kind |-> "none"]

Init ==
    /\ op = "start"
    /\ args = <<>>
    /\ ret = <<>>
    /\ obj = NoModel
    /\ bundles = NoBundles
    /\ stack = <<>>

\* MultiGMPE.from_list called by a client, its arguments drawn from the
\* given sets
FromListCall(Gmpes, Weights, Imcs, Defaults, DefaultWeights) ==
    /\ op = "start"
    /\ \E gmpes \in Gmpes, weights \in Weights, imc \in Imcs,
          dsite \in Defaults, dwts \in DefaultWeights :
         \E m \in {from_list(gmpes, weights, imc, dsite, dwts,
                             REFERENCE_VS30_DEFAULT)} :
             /\ op' = "from_list"
             /\ args' = [gmpes |-> gmpes, weights |-> weights, imc |-> imc,
                         default_gmpes_for_site |-> dsite,
                         default_gmpes_for_site_weights |-> dwts]
             /\ ret' = [ok |-> m.ok, err |-> m.err]
             /\ obj' = IF m.ok THEN [kind |-> "multi", m |-> m.obj] ELSE NoModel
    /\ UNCHANGED <<bundles, stack>>

\* MultiGMPE.from_config called by a client
FromConfigCall(Confs) ==
    /\ op = "start"
    /\ \E conf \in Confs :
         \E m \in {from_config(conf)} :
             /\ op' = "from_config"
             /\ args' = [conf |-> conf]
             /\ ret' = [ok |-> m.ok, err |-> m.err]
             /\ obj' = IF m.ok THEN [kind |-> "multi", m |-> m.obj] ELSE NoModel
    /\ UNCHANGED <<bundles, stack>>

\* DualDistanceWeights.from_set_name called by a client
FromSetNameCall(Defs, ImtOpts) ==
    /\ op = "start"
    /\ \E def \in Defs, imt \in ImtOpts :
         \E m \in {from_set_name(def, imt)} :
             /\ op' = "from_set_name"
             /\ args' = [def |-> def, imt |-> imt]
             /\ ret' = [ok |-> m.ok, err |-> m.err]
             /\ obj' = IF m.ok THEN [kind |-> "dual", m |-> m.obj] ELSE NoModel
    /\ UNCHANGED <<bundles, stack>>

\* filter_gmpe_list called by a client
FilterCall(Gmpes, Weights, Imts) ==
    /\ op = "start"
    /\ \E gmpes \in Gmpes, wts \in Weights, imt \in Imts :
         /\ op' = "filter_gmpe_list"
         /\ args' = [gmpes |-> gmpes, wts |-> wts, imt |-> imt]
         /\ ret' = filter_gmpe_list(gmpes, wts, imt)
    /\ UNCHANGED <<obj, bundles, stack>>

\* get_mean_and_stddevs called by a client on the constructed object
EvaluateCall(Imts, Types, Bs) ==
    /\ op \in {"from_list", "from_config", "from_set_name"}
    /\ obj.kind # "none"
    /\ \E imt \in Imts, stddev_types \in Types, b \in Bs :
         \E r \in {IF obj.kind = "multi"
                   THEN PublicCall(obj.m, b, imt, stddev_types)
                   ELSE DualCall(obj.m, b, imt, stddev_types)} :
             /\ op' = "evaluate"
             /\ args' = [imt |-> imt, stddev_types |-> stddev_types, b |-> b]
             /\ ret' = r.res
             /\ bundles' = r.b
    /\ UNCHANGED <<obj, stack>>

\* get_site_factors called by a client on the constructed MultiGMPE
SiteFactorsCall(Imts, Defaults, Bs) ==
    /\ op \in {"from_list", "from_config"}
    /\ obj.kind = "multi"
    /\ \E imt \in Imts, default \in Defaults, b \in Bs :
         \E r \in {SiteFactorsOnBundles(obj.m, b, imt, default)} :
             /\ op' = "get_site_factors"
             /\ args' = [imt |-> imt, default |-> default, b |-> b]
             /\ ret' = r.res
             /\ bundles' = r.b
    /\ UNCHANGED <<obj, stack>>

(***************************************************************************)
(* The sets the arguments are drawn from                                   *)
(***************************************************************************)
WeightSet == {Rat(-1, 2), Zero, Rat(1, 4), Rat(1, 2), Rat(3, 4), One, Rat(3, 2)}

LeafMembers == {Leaf(g) : g \in LeafNames}

IMCs == {"Larger", "RotD50"}

SiteDefaults == {Absent, Some(<<Leaf("gA")>>), Some(<<Leaf("gA"), Leaf("gB")>>)}

IMTs == {PGA, PGV, SA(10), SA(30)}

TypeLists == {<<"Total">>, <<"Total", "Inter">>, <<"Intra">>}

BundlesOf(SiteShapes, DistShapes, Vs30s, Rjbs) ==
    {[sites |-> [shape |-> [vs30 |-> s, lons |-> <<1>>], vs30 |-> v],
      rup |-> [shape |-> [mag |-> <<>>]],
      dists |-> [shape |-> [rjb |-> d], rjb |-> r]] :
        s \in SiteShapes, d \in DistShapes, v \in Vs30s, r \in Rjbs}

\* every array of NSites values whose last is c and whose others are in S
ArraysEnding(S, c) == {v \in [1..NSites -> S \cup {c}] : v[NSites] = c}

(***************************************************************************)
(* Spec: sets built by from_list, then evaluated                           *)
(***************************************************************************)
BundlesFlat ==
    BundlesOf({<<NSites>>}, {<<NSites>>}, ArraysEnding({360}, 760),
              ArraysEnding({20, 50}, 50))

Next ==
    \/ FromListCall(SeqsUpTo(LeafMembers, MaxMembers),
                    SeqsUpTo(WeightSet, MaxMembers), IMCs, SiteDefaults, {Absent})
    \/ EvaluateCall(IMTs, TypeLists, BundlesFlat)

Spec == Init /\ [][Next]_vars

\* configurations of one model set: its members with their weights, and
\* the optional entries
SubConfs(Members, FarWeights, Cutoffs, SiteGmpes, SiteWeights) ==
    {[gmpes |-> m[1], weights |-> m[2], weights_large_dist |-> wl,
      dist_cutoff |-> dc, site_gmpes |-> sg, weights_site_gmpes |-> wsg] :
        m \in Members, wl \in FarWeights, dc \in Cutoffs, sg \in SiteGmpes,
        wsg \in SiteWeights}

PlainSubConf ==
    [gmpes |-> <<"gA">>, weights |-> <<One>>, weights_large_dist |-> Absent,
     dist_cutoff |-> Absent, site_gmpes |-> Absent,
     weights_site_gmpes |-> Absent]

\* configurations selecting one model set, or one and the plain set
Confs(Components, Subs, PairWeights) ==
    {[component |-> c, sets |-> <<s>>, weights |-> <<One>>] :
        c \in Components, s \in Subs}
      \cup {[component |-> c, sets |-> <<s, PlainSubConf>>, weights |-> w] :
              c \in Components, s \in Subs, w \in PairWeights}

\* what a named set's get_weights() may return
SetDefs(Gmpes, Weights, FarWeights, Cutoffs, SiteGmpes) ==
    {[gmpes |-> g, wts |-> w, wts_large_dist |-> wl, dist_cutoff |-> dc,
      site_gmpes |-> sg] :
        g \in Gmpes, w \in Weights, wl \in FarWeights, dc \in Cutoffs,
        sg \in SiteGmpes}

CutoffKm == 50

(***************************************************************************)
(* SpecDist: sets with far-field weights and a cutoff distance, built by   *)
(* from_config and from_set_name, then evaluated at sites below, at and    *)
(* beyond the cutoff                                                       *)
(***************************************************************************)
DistConfs ==
    Confs({"Larger"},
          SubConfs({<<<<"gA">>, <<One>>>>,
                    <<<<"gA", "gB">>, <<Rat(1, 4), Rat(3, 4)>>>>,
                    <<<<"gB", "gC">>, <<Rat(1, 2), Rat(1, 2)>>>>},
                   {Absent, Some(<<>>), Some(<<One>>),
                    Some(<<Rat(3, 4), Rat(1, 4)>>), Some(<<Zero, One>>),
                    Some(<<Rat(1, 2), Rat(1, 4)>>)},
                   {Absent, Some(NaN), Some(Int2Num(CutoffKm))},
                   {Absent, Some(<<"gA">>)},
                   {Absent}),
          {<<Rat(1, 2), Rat(1, 2)>>})

DistDefs ==
    SetDefs({<<Leaf("gA"), Leaf("gB")>>, <<Leaf("gA"), Leaf("gD")>>,
             <<Leaf("gB"), Leaf("gC")>>},
            {<<Rat(1, 2), Rat(1, 2)>>, <<Rat(1, 4), Rat(3, 4)>>},
            {Absent, Some(<<Zero, One>>), Some(<<One, Zero>>),
             Some(<<Rat(3, 4), Rat(1, 4)>>)},
            {Absent, Some(CutoffKm)},
            {Some(<<Leaf("gA")>>)})

BundlesDist ==
    BundlesOf({<<NSites>>}, {<<NSites>>},
              {[i \in 1..NSites |-> 760],
               [i \in 1..NSites |-> IF i = 1 THEN 360 ELSE 760]},
              {[i \in 1..NSites |-> CutoffKm]}
                \cup ArraysEnding({20, CutoffKm}, 80))

NextDist ==
    \/ FromConfigCall(DistConfs)
    \/ FromSetNameCall(DistDefs, {Absent, Some(PGA), Some(PGV), Some(SA(30))})
    \/ EvaluateCall({PGA, PGV, SA(30)}, {<<"Total", "Inter">>}, BundlesDist)

SpecDist == Init /\ [][NextDist]_vars

(***************************************************************************)
(* SpecShape: sets of each kind evaluated on site and distance arrays of   *)
(* every pair of shapes                                                    *)
(***************************************************************************)
Shapes == {<<NSites>>, <<NSites, 1>>, <<1, NSites>>}

ShapeConfs ==
    Confs({"Larger"},
          SubConfs({<<<<"gA", "gB">>, <<Rat(1, 4), Rat(3, 4)>>>>},
                   {Absent, Some(<<Rat(3, 4), Rat(1, 4)>>)},
                   {Absent, Some(Int2Num(CutoffKm))},
                   {Absent}, {Absent}),
          {<<Rat(1, 2), Rat(1, 2)>>})

ShapeDefs ==
    SetDefs({<<Leaf("gA"), Leaf("gB")>>}, {<<Rat(1, 2), Rat(1, 2)>>},
            {Absent, Some(<<One, Zero>>)}, {Some(CutoffKm)},
            {Some(<<Leaf("gA")>>)})

BundlesShaped ==
    BundlesOf(Shapes, Shapes, ArraysEnding({360}, 760) \ {Vec(NSites, 760)},
              ArraysEnding({20}, 80))

NextShape ==
    \/ FromListCall(SeqsUpTo({Leaf("gA"), Leaf("gB"), Leaf("gC")}, MaxMembers),
                    SeqsUpTo({Rat(1, 2), One}, MaxMembers), {"Larger"},
                    {Absent, Some(<<Leaf("gA")>>)}, {Absent})
    \/ FromConfigCall(ShapeConfs)
    \/ FromSetNameCall(ShapeDefs, {Absent})
    \/ EvaluateCall({PGA, PGV, SA(30)}, TypeLists, BundlesShaped)

SpecShape == Init /\ [][NextShape]_vars

(***************************************************************************)
(* SpecBuild: the three constructors on valid and invalid arguments        *)
(***************************************************************************)
\* weights about the tolerance: 0.47 + 0.5 = 0.97, and 0.5 plus one and
\* plus two tolerances
FineWeights ==
    {Rat(-1, 2), Zero, Rat(47, 100), Rat(1, 2), Rat(TolDen \div 2 + 1, TolDen),
     Rat(TolDen \div 2 + 2, TolDen), One, Rat(3, 2)}

BuildConfs ==
    Confs({"Larger", "RotD50", "Geometric"},
          SubConfs({<<<<"gA">>, <<One>>>>,
                    <<<<"gA", "gB">>, <<Rat(1, 4), Rat(3, 4)>>>>,
                    <<<<"gB", "gC">>, <<Rat(1, 2), Rat(1, 2)>>>>,
                    <<<<"gA", "gB">>, <<Rat(1, 2), Rat(1, 4)>>>>},
                   {Absent, Some(<<>>), Some(<<One>>),
                    Some(<<Rat(3, 4), Rat(1, 4)>>),
                    Some(<<Rat(1, 2), Rat(1, 4)>>)},
                   {Absent, Some(NaN), Some(Int2Num(CutoffKm))},
                   {Absent, Some(<<"gA">>), Some(<<"gA", "gB">>)},
                   {Absent, Some(One), Some(Rat(1, 2))}),
          {<<Rat(1, 2), Rat(1, 2)>>, <<Rat(1, 2), Rat(1, 4)>>})

\* weights of two models that sum to one, a zero weight included
UnitWeights ==
    {<<Rat(1, 2), Rat(1, 2)>>, <<Rat(1, 4), Rat(3, 4)>>, <<One, Zero>>,
     <<Zero, One>>}

BuildDefs ==
    SetDefs({<<Leaf("gA"), Leaf("gB")>>, <<Leaf("gA"), Leaf("gD")>>,
             <<Leaf("gB"), Leaf("gC")>>},
            UnitWeights,
            {Absent} \cup {Some(w) : w \in UnitWeights},
            {Absent, Some(CutoffKm)},
            {Absent, Some(<<Leaf("gA")>>)})

NextBuild ==
    \/ FromListCall(SeqsUpTo(LeafMembers \cup {NotAGmpe}, MaxMembers),
                    SeqsUpTo(FineWeights, MaxMembers), IMCs,
                    SiteDefaults \cup {Some(<<NotAGmpe>>)},
                    {Absent, Some(<<One>>), Some(<<Rat(1, 2), Rat(1, 4)>>)})
    \/ FromConfigCall(BuildConfs)
    \/ FromSetNameCall(BuildDefs, {Absent} \cup {Some(i) : i \in IMTs})

SpecBuild == Init /\ [][NextBuild]_vars

(***************************************************************************)
(* SpecFilter: filter_gmpe_list on lists of models and weights, and        *)
(* from_set_name, which filters the near-field and far-field weights       *)
(***************************************************************************)
MaxListed == 3

FilterImts == {PGA, PGV, SA(10), SA(20), SA(30)}

FilterDefs ==
    SetDefs({<<Leaf("gA"), Leaf("gB")>>, <<Leaf("gB"), Leaf("gD")>>},
            {<<Rat(1, 2), Rat(1, 2)>>},
            {Absent, Some(<<Zero, One>>), Some(<<One, Zero>>),
             Some(<<Rat(1, 4), Rat(3, 4)>>)},
            {Some(CutoffKm)},
            {Some(<<Leaf("gA")>>)})

NextFilter ==
    \/ FilterCall(SeqsUpTo(LeafMembers, MaxListed),
                  SeqsUpTo({Zero, Rat(1, 4), Rat(1, 2)}, MaxListed), FilterImts)
    \/ FromSetNameCall(FilterDefs, {Absent} \cup {Some(i) : i \in FilterImts})

SpecFilter == Init /\ [][NextFilter]_vars

(***************************************************************************)
(* The combination rule, restated per member, per uncertainty type and per *)
(* site element                                                            *)
(***************************************************************************)
\* the mean and the standard deviations of member i as the rule takes them:
\* the model evaluation (for PGV on a member without it, the conversion of
\* its 1.0 s result, type by type), plus the site adjustment of a member
\* without a site term, converted to the set's component convention
MemberMoments(self, i, ctx, imt, stddev_types) ==
    With(self.GMPES[i], LAMBDA gmpe :
    With(imt = PGV
         /\ "PGV" \notin Attr(gmpe).DEFINED_FOR_INTENSITY_MEASURE_TYPES,
         LAMBDA viaPSA10 :
    With(IF viaPSA10 THEN SA(10) ELSE imt, LAMBDA eimt :
    With(GmpeEval(gmpe, ctx, eimt, stddev_types), LAMBDA ev :
    With(IF HasSiteTerm(gmpe) THEN Vec(NSitesOf(ctx), Zero)
         ELSE get_site_factors(self, ctx, eimt, TRUE).mean, LAMBDA lamps :
    With(VecAdd(ev.mean, lamps), LAMBDA sited :
    With([j \in 1..Len(stddev_types) |->
            IF viaPSA10 THEN psa102pgv(sited, ev.sd[j])
            ELSE [mean |-> sited, sd |-> ev.sd[j]]], LAMBDA raw :
      [mean |-> [k \in 1..NSitesOf(ctx) |->
                   ampIMCtoIMC(raw[1].mean[k],
                               Attr(gmpe).DEFINED_FOR_INTENSITY_MEASURE_COMPONENT,
                               self.DEFINED_FOR_INTENSITY_MEASURE_COMPONENT, imt)],
       sd |-> [j \in 1..Len(stddev_types) |-> [k \in 1..NSitesOf(ctx) |->
                   sigmaIMCtoIMC(raw[j].sd[k],
                                 Attr(gmpe).DEFINED_FOR_INTENSITY_MEASURE_COMPONENT,
                                 self.DEFINED_FOR_INTENSITY_MEASURE_COMPONENT,
                                 imt)]]])))))))

\* the members' moments, member by member
AllMoments(self, ctx, imt, stddev_types) ==
    [i \in 1..Len(self.GMPES) |-> MemberMoments(self, i, ctx, imt, stddev_types)]

\* sum_i w_i * m_i at site k
WeightedMean(mm, wts, k) ==
    SumSeq([i \in 1..Len(mm) |-> Mul(wts[i], mm[i].mean[k])])

\* sum_i w_i * (m_i^2 + s_i^2) - mean^2 for type j at site k
TotalVariance(mm, wts, j, k) ==
    Sub(SumSeq([i \in 1..Len(mm) |->
                  Mul(wts[i], Add(Mul(mm[i].mean[k], mm[i].mean[k]),
                                  Square(mm[i].sd[j][k])))]),
        Mul(WeightedMean(mm, wts, k), WeightedMean(mm, wts, k)))

\* an evaluation of a set that from_list built has returned
EvaluatedList ==
    /\ op = "evaluate"
    /\ obj.kind = "multi"
    /\ ~obj.m.HAS_CUTOFF_DISTANCE
    /\ ret.ok

\* C1: for a set accepted by from_list, evaluate returns, at every site
\* element, mean = sum_i w_i*m_i and, for every requested uncertainty type,
\* sd^2 = sum_i w_i*(m_i^2 + s_i^2) - mean^2, with m_i, s_i the member's mean
\* and standard deviation after site adjustment and convention conversion
C1_LawOfTotalVariance ==
    EvaluatedList =>
      \E mm \in {AllMoments(obj.m, CtxOf(args.b), args.imt, args.stddev_types)} :
        \A k \in DOMAIN args.b.sites.vs30 :
          /\ ret.mean.data[k] = WeightedMean(mm, obj.m.WEIGHTS, k)
          /\ \A j \in 1..Len(args.stddev_types) :
               Square(ret.sd[j].data[k])
                 = TotalVariance(mm, obj.m.WEIGHTS, j, k)

\* a two-member set with a negative weight has been evaluated for PGA
C1_Reached ==
    /\ EvaluatedList
    /\ obj.m.WEIGHTS = <<Rat(3, 2), Rat(-1, 2)>>
    /\ args.imt = PGA

\* C2: a set of exactly one member at weight 1.0 returns exactly that
\* member's convention-converted mean and, for each requested uncertainty
\* type, exactly that member's convention-converted standard deviation
C2_SingleMemberPassThrough ==
    (EvaluatedList /\ Len(obj.m.GMPES) = 1 /\ obj.m.WEIGHTS = <<One>>) =>
      \E mm \in {MemberMoments(obj.m, 1, CtxOf(args.b), args.imt,
                               args.stddev_types)} :
        /\ ret.mean.data = mm.mean
        /\ \A j \in 1..Len(args.stddev_types) : ret.sd[j].data = mm.sd[j]

\* a single member without PGV has been evaluated for PGV at sites of
\* different stiffness
C2_Reached ==
    /\ EvaluatedList
    /\ obj.m.GMPES = <<Leaf("gB")>>
    /\ obj.m.WEIGHTS = <<One>>
    /\ args.imt = PGV
    /\ \E k \in DOMAIN args.b.sites.vs30 :
         args.b.sites.vs30[k] # args.b.sites.vs30[1]

\* C3: for every accepted set the radicand rawSecondMoment - mean^2 is
\* non-negative (or clamped), so every returned standard deviation is real,
\* non-negative and never NaN
C3_StdDevNeverNaN ==
    EvaluatedList =>
      \A j \in 1..Len(ret.sd) : \A k \in DOMAIN ret.sd[j].data :
         /\ ~IsNaN(ret.sd[j].data[k])
         /\ ret.sd[j].data[k].n >= 0

\* a set whose weights sum to one with a negative entry has been evaluated
C3_Reached ==
    /\ EvaluatedList
    /\ \E i \in DOMAIN obj.m.WEIGHTS : obj.m.WEIGHTS[i].n < 0
    /\ SumSeq(obj.m.WEIGHTS) = One

(***************************************************************************)
(* Distance blending                                                       *)
(***************************************************************************)
\* the near-field and the far-field results that the evaluation last made
\* blends, and the cutoff between them: those of the two sets of a
\* DualDistanceWeights, or those of the single sub-set (at weight 1.0) of a
\* from_config set
Blended ==
    IF obj.kind = "dual"
    THEN [near |-> PublicCall(obj.m.mgmpe_small, args.b, args.imt,
                              args.stddev_types).res,
          far |-> PublicCall(obj.m.mgmpe_large.val, args.b, args.imt,
                             args.stddev_types).res,
          cutoff |-> obj.m.dist_cutoff.val]
    ELSE [near |-> Shaped(Combine(obj.m.GMPES[1].obj, CtxOf(args.b), args.imt,
                                  args.stddev_types, FALSE),
                          args.b.dists.shape.rjb),
          far |-> Shaped(Combine(obj.m.GMPES[1].obj, CtxOf(args.b), args.imt,
                                 args.stddev_types, TRUE),
                         args.b.dists.shape.rjb),
          cutoff |-> obj.m.GMPES[1].obj.CUTOFF_DISTANCE]

\* a successful evaluation of a model with a near-field set, a far-field
\* set and a cutoff: a DualDistanceWeights, or a MultiGMPE with
\* CUTOFF_DISTANCE seen through the from_config set that wraps it alone
EvaluatedBlend ==
    /\ op = "evaluate"
    /\ ret.ok
    /\ \/ obj.kind = "dual" /\ obj.m.mgmpe_large.given
       \/ /\ obj.kind = "multi"
          /\ Len(obj.m.GMPES) = 1
          /\ obj.m.WEIGHTS = <<One>>
          /\ obj.m.GMPES[1].kind = "set"
          /\ obj.m.GMPES[1].obj.HAS_CUTOFF_DISTANCE
          \* the sub-set is evaluated for the requested measure itself
          /\ args.imt.name
                \in obj.m.GMPES[1].obj.DEFINED_FOR_INTENSITY_MEASURE_TYPES

\* array a is, element by element, far's where the distance exceeds the
\* cutoff and near's elsewhere
Selects(a, near, far, rjb, cutoff) ==
    \A k \in DOMAIN rjb :
       a.data[k] = IF rjb[k] > cutoff THEN far.data[k] ELSE near.data[k]

\* C7: with a near-field set, a far-field set and a cutoff, the blended
\* evaluate returns for every site element the far-field value when the
\* distance exceeds the cutoff and the near-field value when it does not
\* (a distance equal to the cutoff included), for the mean array and for
\* every requested uncertainty-type array alike, in DualDistanceWeights and
\* in MultiGMPE with CUTOFF_DISTANCE
C7_BlendSelectsByDistance ==
    EvaluatedBlend =>
      \E x \in {Blended} :
        /\ Selects(ret.mean, x.near.mean, x.far.mean, args.b.dists.rjb, x.cutoff)
        /\ \A j \in 1..Len(args.stddev_types) :
             Selects(ret.sd[j], x.near.sd[j], x.far.sd[j], args.b.dists.rjb,
                     x.cutoff)

\* a blended evaluation with one site at the cutoff and one beyond it,
\* where the near-field and far-field values differ at both
C7_Reached ==
    /\ EvaluatedBlend
    /\ args.b.dists.rjb = <<CutoffKm, 80>>
    /\ \E x \in {Blended} :
         \A k \in DOMAIN args.b.dists.rjb :
            /\ x.near.mean.data[k] # x.far.mean.data[k]
            /\ x.near.sd[1].data[k] # x.far.sd[1].data[k]

\* the same model without any far-field configuration
NearOnly ==
    IF obj.kind = "dual" THEN obj.m.mgmpe_small
    ELSE [obj.m EXCEPT !.GMPES =
            [i \in DOMAIN @ |->
               Nested([@[i].obj EXCEPT !.HAS_CUTOFF_DISTANCE = FALSE])]]

\* no far-field weight set is configured for the model evaluated
NoFarWeights ==
    /\ op = "evaluate"
    /\ \/ obj.kind = "dual" /\ ~obj.m.mgmpe_large.given
       \/ /\ obj.kind = "multi"
          /\ \A i \in DOMAIN obj.m.GMPES :
                /\ obj.m.GMPES[i].kind = "set"
                /\ ~obj.m.GMPES[i].obj.WEIGHTS_LARGE_DISTANCE.given

\* C8: when no far-field weight set is configured, evaluate performs no
\* blending and returns exactly the near-field combination, for a
\* DualDistanceWeights with wts_large_dist = None and for every from_config
\* sub-set without (or with an empty) weights_large_dist, whether or not a
\* dist_cutoff is present
C8_NoFarWeightsNoBlending ==
    NoFarWeights =>
      \E near \in {PublicCall(NearOnly, args.b, args.imt, args.stddev_types).res} :
        /\ ret.ok = near.ok
        /\ ret.mean = near.mean
        /\ ret.sd = near.sd

\* a from_config set whose sub-set has a cutoff and no far-field weights
\* has been evaluated
C8_Reached ==
    /\ NoFarWeights
    /\ obj.kind = "multi"
    /\ \E i \in DOMAIN obj.m.GMPES : obj.m.GMPES[i].obj.HAS_CUTOFF_DISTANCE

(***************************************************************************)
(* Construction                                                            *)
(***************************************************************************)
\* the sets that the last constructor call built through from_list
ConstructedSets ==
    IF op \notin {"from_list", "from_config", "from_set_name"} \/ ~ret.ok THEN {}
    ELSE IF op = "from_list" THEN {obj.m}
    ELSE IF op = "from_config"
    THEN {obj.m} \cup {obj.m.GMPES[i].obj : i \in DOMAIN obj.m.GMPES}
    ELSE {obj.m.mgmpe_small}
           \cup (IF obj.m.mgmpe_large.given THEN {obj.m.mgmpe_large.val} ELSE {})

\* |sum(weights) - 1| <= 1e-7
SumsToOne(weights) ==
    \E z \in {Sub(AbsNum(Sub(SumSeq(weights), One)), Tol)} :
       IsFinite(z) /\ z.n <= 0

\* C4: from_list returns a model set only if |sum(weights) - 1| <= 1e-7 and
\* len(weights) = len(models), and fails otherwise (weights summing to 0.97
\* fail with the weight-sum error), so every constructed set has member
\* weights that sum to one and are as many as its models
C4_WeightsSumToOne ==
    /\ op = "from_list" =>
         /\ ret.ok => /\ SumsToOne(args.weights)
                      /\ Len(args.weights) = Len(args.gmpes)
         /\ SumSeq(args.weights) = Rat(97, 100) =>
              ~ret.ok /\ ret.err = "Weights must sum to one."
    /\ \A m \in ConstructedSets :
         SumsToOne(m.WEIGHTS) /\ Len(m.WEIGHTS) = Len(m.GMPES)

\* from_set_name has built a far-field set from weights that the filter
\* rescaled
C4_Reached ==
    /\ op = "from_set_name"
    /\ ret.ok
    /\ args.imt.given
    /\ obj.m.mgmpe_large.given
    /\ Len(obj.m.mgmpe_large.val.GMPES) < Len(args.def.gmpes)

\* C5: every weight of every set that from_list constructs is non-negative;
\* a weight list with a negative entry, even one that sums to 1.0 such as
\* [1.5, -0.5], never yields a constructed set
C5_WeightsNonNegative ==
    /\ \A m \in ConstructedSets :
         \A i \in DOMAIN m.WEIGHTS : ~IsNaN(m.WEIGHTS[i]) /\ m.WEIGHTS[i].n >= 0
    /\ (op = "from_list" /\ \E i \in DOMAIN args.weights : args.weights[i].n < 0)
         => ~ret.ok

\* from_list has been called with the weights [1.5, -0.5] for two models
C5_Reached ==
    /\ op = "from_list"
    /\ args.weights = <<Rat(3, 2), Rat(-1, 2)>>
    /\ \A i \in DOMAIN args.gmpes : IsGMPE(args.gmpes[i])

(***************************************************************************)
(* Shapes                                                                  *)
(***************************************************************************)
\* the fields of bundle part b0 have in b1 the shape they have in b0
ShapesKept(b0, b1) ==
    \A f \in DOMAIN b0.shape : f \in DOMAIN b1.shape /\ b1.shape[f] = b0.shape[f]

\* C6: for any common input shape of the site and distance arrays, a
\* successful evaluate returns a mean array and every standard-deviation
\* array with exactly that shape, not the flattened one, and leaves the
\* caller's site and distance arrays with their original shape
C6_ShapeRoundTrip ==
    (op = "evaluate" /\ ret.ok) =>
      /\ ret.mean.shape = args.b.sites.shape.vs30
      /\ ret.mean.shape = args.b.dists.shape.rjb
      /\ Len(ret.mean.data) = Prod(ret.mean.shape)
      /\ Len(ret.sd) = Len(args.stddev_types)
      /\ \A j \in DOMAIN ret.sd :
            /\ ret.sd[j].shape = ret.mean.shape
            /\ Len(ret.sd[j].data) = Prod(ret.mean.shape)
      /\ ShapesKept(args.b.sites, bundles.sites)
      /\ ShapesKept(args.b.dists, bundles.dists)
      /\ bundles.sites.vs30 = args.b.sites.vs30
      /\ bundles.dists.rjb = args.b.dists.rjb

\* a set with a cutoff distance has been evaluated, through both of its
\* passes, on two-dimensional arrays
C6_Reached ==
    /\ op = "evaluate"
    /\ ret.ok
    /\ Len(args.b.sites.shape.vs30) = 2
    /\ obj.kind = "multi"
    /\ \E i \in DOMAIN obj.m.GMPES :
          obj.m.GMPES[i].kind = "set" /\ obj.m.GMPES[i].obj.HAS_CUTOFF_DISTANCE

(***************************************************************************)
(* The filter                                                              *)
(***************************************************************************)
\* the documented rule of applicability, read from the coefficient table
Covers(g, p) ==
    \E lo \in get_gmpe_sa_periods(g), hi \in get_gmpe_sa_periods(g) :
       lo <= p /\ p <= hi

ShouldKeep(g, imt) ==
    IF imt.name = "SA" THEN Covers(g, imt.period)
    ELSE IF imt = PGV
    THEN "PGV" \in get_gmpe_coef_table(g).non_sa_coeffs \/ Covers(g, 10)
    ELSE "PGA" \in get_gmpe_coef_table(g).non_sa_coeffs

\* the positions of the models to keep, in order
KeptPositions(gmpes, imt) ==
    SelectSeq(Indices(gmpes), LAMBDA i : ShouldKeep(gmpes[i], imt))

\* filter_gmpe_list has returned for a list with one weight per model
Filtered1 ==
    /\ op = "filter_gmpe_list"
    /\ ret.ok
    /\ Len(args.wts) = Len(args.gmpes)

\* C9: filter_gmpe_list keeps exactly the applicable models, in their
\* original order and each paired with its own weight: for SA at period p
\* those with per_min <= p <= per_max, for PGV those with a PGV entry or a
\* period range spanning 1.0 s, for PGA those with a PGA entry; a model
\* whose range tops out at 2.0 s is excluded for p = 3.0 s
C9_FilterKeepsApplicable ==
    Filtered1 =>
      \E kept \in {KeptPositions(args.gmpes, args.imt)} :
        /\ ret.gmpes = [k \in 1..Len(kept) |-> args.gmpes[kept[k]]]
        /\ ret.wts = ScaleWeights([k \in 1..Len(kept) |-> args.wts[kept[k]]])
        /\ args.imt = SA(30) => Leaf("gB") \notin Range(ret.gmpes)

\* a list holding the model that tops out at 2.0 s has been filtered for
\* 3.0 s, and a model has been kept
C9_Reached ==
    /\ Filtered1
    /\ args.imt = SA(30)
    /\ Leaf("gB") \in Range(args.gmpes)
    /\ Len(ret.gmpes) > 0

\* C10: whenever filter_gmpe_list returns, the returned weights sum to 1.0
\* and are the kept models' weights each divided by the sum of the kept
\* weights, for every input weight vector, one in which all kept models
\* carry weight 0 (as with a far-field weight vector) included
C10_FilteredWeightsSumToOne ==
    /\ Filtered1 =>
         \E kept \in {KeptPositions(args.gmpes, args.imt)} :
           /\ SumSeq(ret.wts) = One
           /\ \A k \in DOMAIN ret.wts :
                ret.wts[k]
                  = Div(args.wts[kept[k]],
                        SumSeq([n \in 1..Len(kept) |-> args.wts[kept[n]]]))
    /\ (op = "from_set_name" /\ ret.ok /\ args.imt.given
          /\ obj.m.mgmpe_large.given)
         => SumSeq(obj.m.mgmpe_large.val.WEIGHTS) = One

\* filter_gmpe_list has returned models whose input weights are all zero
C10_Reached ==
    /\ Filtered1
    /\ \A i \in DOMAIN args.gmpes :
          ShouldKeep(args.gmpes[i], args.imt) => args.wts[i] = Zero

\* filter_gmpe_list has been called with one weight per model, for a
\* measure that none of the listed models is applicable to
NoneApplicable ==
    /\ op = "filter_gmpe_list"
    /\ Len(args.wts) = Len(args.gmpes)
    /\ KeptPositions(args.gmpes, args.imt) = <<>>

\* C11: if no model in the list is applicable to the requested measure,
\* filter_gmpe_list fails with the "no applicable model" error that names
\* the requested measure, and returns no model list or weights
C11_NoApplicableModelError ==
    NoneApplicable =>
      /\ ~ret.ok
      /\ ret.err = "No applicable GMPEs from GMPE list for the requested imt"
      /\ ret.gmpes = <<>>
      /\ ret.wts = <<>>

\* a list in which no model's period range covers 3.0 s has been filtered
\* for spectral acceleration at 3.0 s
C11_Reached ==
    /\ NoneApplicable
    /\ args.imt = SA(30)
    /\ Len(args.gmpes) > 0
    /\ ~ret.ok

(***************************************************************************)
(* The uncertainty types                                                   *)
(***************************************************************************)
\* the types that every member of set m supports
SupportedByAll(m) ==
    {t \in {"Total", "Inter", "Intra"} :
       \A i \in DOMAIN m.GMPES :
          t \in Attr(m.GMPES[i]).DEFINED_FOR_STANDARD_DEVIATION_TYPES}

\* a MultiGMPE has been evaluated on arrays of one common shape
EvaluatedMulti ==
    /\ op = "evaluate"
    /\ obj.kind = "multi"
    /\ Cardinality(ShapeSet(args.b)) = 1

\* C12: evaluate fails with the unsupported-uncertainty-type error whenever
\* the requested types are not a subset of the set's declared types (the
\* intersection of all members' supported types), and then no member model
\* is evaluated; when it does not fail, every requested type is supported
\* by every member
C12_UnsupportedTypeFails ==
    EvaluatedMulti =>
      /\ obj.m.DEFINED_FOR_STANDARD_DEVIATION_TYPES = SupportedByAll(obj.m)
      /\ ~(Range(args.stddev_types) \subseteq SupportedByAll(obj.m)) =>
            /\ ~ret.ok
            /\ ret.err = "Requested an unavailable stddev_type."
            /\ ret.log = <<>>
      /\ ret.ok => Range(args.stddev_types) \subseteq SupportedByAll(obj.m)

\* a set of two members has been asked for a type that one member supports
\* and the other does not
C12_Reached ==
    /\ EvaluatedMulti
    /\ ~ret.ok
    /\ Len(obj.m.GMPES) = 2
    /\ \E t \in Range(args.stddev_types) :
          /\ t \in Attr(obj.m.GMPES[1]).DEFINED_FOR_STANDARD_DEVIATION_TYPES
          /\ t \notin Attr(obj.m.GMPES[2]).DEFINED_FOR_STANDARD_DEVIATION_TYPES

(***************************************************************************)
(* SpecEval: sets with well-formed weights, built by from_list (members    *)
(* with and without a site term, with and without default site models)     *)
(* and by from_config, then evaluated                                      *)
(***************************************************************************)
EvalWeights == {EqualWeights(k) : k \in 1..MaxMembers} \cup {<<Rat(1, 4), Rat(3, 4)>>}

EvalDefaults == {Absent, Some(<<Leaf("gA"), Leaf("gB")>>), Some(<<Leaf("gC")>>)}

EvalConfs ==
    Confs({"Larger"},
          SubConfs({<<<<"gA", "gB">>, <<Rat(1, 4), Rat(3, 4)>>>>,
                    <<<<"gB", "gC">>, <<Rat(1, 2), Rat(1, 2)>>>>},
                   {Absent, Some(<<Rat(3, 4), Rat(1, 4)>>)},
                   {Absent, Some(Int2Num(CutoffKm))},
                   {Absent, Some(<<"gA">>)},
                   {Absent}),
          {<<Rat(1, 2), Rat(1, 2)>>})

BundlesEval ==
    BundlesOf({<<NSites>>}, {<<NSites>>},
              {[i \in 1..NSites |-> 760],
               [i \in 1..NSites |-> IF i = 1 THEN 360 ELSE 760]},
              {[i \in 1..NSites |-> IF i = 1 THEN 20 ELSE 80]})

NextEval ==
    \/ FromListCall(SeqsUpTo(LeafMembers, MaxMembers), EvalWeights, IMCs,
                    EvalDefaults, {Absent})
    \/ FromConfigCall(EvalConfs)
    \/ EvaluateCall(IMTs, TypeLists, BundlesEval)
    \/ SiteFactorsCall(IMTs, BOOLEAN, BundlesEval)

SpecEval == Init /\ [][NextEval]_vars

(***************************************************************************)
(* SpecRup: sets evaluated on bundles whose rupture magnitude is a scalar  *)
(* or an array of its own shape                                            *)
(***************************************************************************)
\* the bundles of B with a rupture magnitude of each of the given shapes
WithRup(B, RupShapes) ==
    {[b EXCEPT !.rup.shape.mag = s] : b \in B, s \in RupShapes}

BundlesRup ==
    WithRup(BundlesOf(Shapes, Shapes,
                      {[i \in 1..NSites |-> IF i = 1 THEN 360 ELSE 760]},
                      {[i \in 1..NSites |-> IF i = 1 THEN 20 ELSE 80]}),
            {<<>>} \cup Shapes)

NextRup ==
    \/ FromListCall(SeqsUpTo({Leaf("gA"), Leaf("gB")}, MaxMembers),
                    {EqualWeights(k) : k \in 1..MaxMembers}, {"Larger"},
                    {Absent}, {Absent})
    \/ EvaluateCall({PGA, SA(10)}, {<<"Total">>}, BundlesRup)

SpecRup == Init /\ [][NextRup]_vars

\* the shapes of the array-valued fields of the three bundles, longitude
\* and latitude excluded
ArrayShapes(b) ==
    ShapeSet(b) \cup ({b.rup.shape[f] : f \in Checked(b.rup.shape)} \ {<<>>})

\* C13: evaluate fails with the shape-mismatch error, before any member
\* model is evaluated, whenever two array-valued fields among the site,
\* rupture and distance bundles (longitude and latitude excluded) have
\* different shapes, a field of the rupture bundle included
C13_ShapeMismatchFails ==
    (op = "evaluate" /\ Cardinality(ArrayShapes(args.b)) > 1) =>
      /\ ~ret.ok
      /\ ret.err = "All sites and dists elements must have same shape."
      /\ ret.log = <<>>

\* a set has been evaluated on site and distance arrays of one shape and a
\* rupture array of another
C13_Reached ==
    /\ op = "evaluate"
    /\ Cardinality(ShapeSet(args.b)) = 1
    /\ Cardinality(ArrayShapes(args.b)) = 2

(***************************************************************************)
(* Tectonic regions                                                        *)
(***************************************************************************)
RECURSIVE RegionsOf(_)
\* the tectonic regions that the GMPE instances of a member list declare,
\* those of the members of nested sets included
RegionsOf(gmpes) ==
    UNION {IF gmpes[i].kind = "leaf"
           THEN {Catalog[gmpes[i].name].DEFINED_FOR_TECTONIC_REGION_TYPE}
           ELSE IF gmpes[i].kind = "set" THEN RegionsOf(gmpes[i].obj.GMPES)
           ELSE {} : i \in DOMAIN gmpes}

\* C14: from_list fails with a tectonic-region-mismatch error whenever its
\* member models do not all declare the same tectonic region; no constructed
\* set, the top-level set that from_config builds from sub-sets included,
\* mixes members of different regions
C14_OneTectonicRegion ==
    /\ (op = "from_list" /\ Cardinality(RegionsOf(args.gmpes)) > 1) => ~ret.ok
    /\ \A m \in ConstructedSets : Cardinality(RegionsOf(m.GMPES)) <= 1

\* from_list has been called with well-formed weights for an active-crust
\* model and a subduction model, with a default site model
C14_Reached ==
    /\ op = "from_list"
    /\ args.gmpes = <<Leaf("gA"), Leaf("gC")>>
    /\ args.weights = <<Rat(1, 2), Rat(1, 2)>>
    /\ args.default_gmpes_for_site = Some(<<Leaf("gA")>>)

(***************************************************************************)
(* SpecSite: from_list and from_config called for members with and without *)
(* a site term, with default site models and weights for them that are     *)
(* omitted, well-formed, of the wrong length or of the wrong sum            *)
(***************************************************************************)
SiteModelChoices ==
    {Absent, Some(<<>>), Some(<<Leaf("gA")>>), Some(<<Leaf("gA"), Leaf("gB")>>),
     Some(<<NotAGmpe>>)}

SiteWeightChoices ==
    {Absent, Some(<<One>>), Some(<<Rat(1, 2), Rat(1, 4)>>),
     Some(<<Rat(1, 4), Rat(3, 4)>>)}

NextSite ==
    \/ FromListCall(SeqsUpTo(LeafMembers, MaxMembers), EvalWeights, {"Larger"},
                    SiteModelChoices, SiteWeightChoices)
    \/ FromConfigCall(BuildConfs)

SpecSite == Init /\ [][NextSite]_vars

\* some member of the list does not require vs30
LacksSiteTerm(gmpes) ==
    \E i \in DOMAIN gmpes :
       "vs30" \notin Attr(gmpes[i]).REQUIRES_SITES_PARAMETERS

\* from_list has been called with a list of GMPE instances of which at
\* least one lacks a site term
CalledLacking ==
    /\ op = "from_list"
    /\ \A i \in DOMAIN args.gmpes : IsGMPE(args.gmpes[i])
    /\ args.gmpes # <<>>
    /\ LacksSiteTerm(args.gmpes)

MeanAt(m, b, vs30, imt) ==
    get_mean_and_stddevs(m, [vs30 |-> vs30, rjb |-> b.dists.rjb], imt,
                         TypeList(m.DEFINED_FOR_STANDARD_DEVIATION_TYPES)).mean

\* the set that get_site_factors evaluates: the set of the default site
\* models, or the set itself
FactorSet ==
    IF args.default
    THEN from_list(obj.m.DEFAULT_GMPES_FOR_SITE.val,
                   obj.m.DEFAULT_GMPES_FOR_SITE_WEIGHTS.val,
                   obj.m.DEFINED_FOR_INTENSITY_MEASURE_COMPONENT,
                   Absent, Absent, REFERENCE_VS30_DEFAULT).obj
    ELSE obj.m

\* C16: get_site_factors returns, per site element, mean(true site bundle)
\* - mean(reference bundle), both from the same model set (the set of the
\* default site models when default is True, otherwise self), the same
\* measure and the same uncertainty set, the reference bundle being the
\* input bundle with every vs30 set to the set's reference velocity; the
\* caller's site bundle keeps its own vs30 values
C16_SiteFactors ==
    (op = "get_site_factors" /\ ret.ok) =>
      \E true \in {MeanAt(FactorSet, args.b, args.b.sites.vs30, args.imt)},
         ref \in {MeanAt(FactorSet, args.b,
                         [k \in DOMAIN args.b.sites.vs30 |-> obj.m.REFERENCE_VS30],
                         args.imt)} :
        /\ ret.mean.data = [k \in DOMAIN true |-> Sub(true[k], ref[k])]
        /\ \A k \in DOMAIN true :
              args.b.sites.vs30[k] = obj.m.REFERENCE_VS30
                => ret.mean.data[k] = Zero
        /\ bundles.sites.vs30 = args.b.sites.vs30
        /\ bundles.dists.rjb = args.b.dists.rjb

\* the site factors of the default site models have been computed for a
\* site off the reference velocity, and are not zero there
C16_Reached ==
    /\ op = "get_site_factors"
    /\ ret.ok
    /\ args.default
    /\ \E k \in DOMAIN ret.mean.data :
          /\ args.b.sites.vs30[k] # obj.m.REFERENCE_VS30
          /\ ret.mean.data[k] # Zero

(***************************************************************************)
(* The order of the steps of the member loop                               *)
(***************************************************************************)
RECURSIVE Concat(_)
Concat(ss) == IF ss = <<>> THEN <<>> ELSE Head(ss) \o Concat(Tail(ss))

\* the measure a leaf model is evaluated for when imt is requested
EvaluatedFor(g, imt) ==
    IF imt = PGV /\ "PGV" \notin Catalog[g].DEFINED_FOR_INTENSITY_MEASURE_TYPES
    THEN SA(10) ELSE imt

\* the steps of a leaf model with a site term, in the stated order
StepsWithSiteTerm(g, imt) ==
    <<Ev("eval", g, EvaluatedFor(g, imt))>>
      \o (IF EvaluatedFor(g, imt) # imt THEN <<Ev("psa102pgv", g, imt)>> ELSE <<>>)
      \o <<Ev("imc", g, imt), Ev("accumulate", g, imt)>>

\* one evaluation of the set of the default site models
DefaultSteps(defaults, imt) ==
    Concat([d \in DOMAIN defaults |-> StepsWithSiteTerm(defaults[d].name, imt)])

\* the steps of a leaf model without a site term, in the stated order: the
\* adjustment from the default site models (two evaluations of their set,
\* for the measure the model is evaluated for), the model evaluation, the
\* addition of the adjustment, the conversions, the accumulation
StepsWithoutSiteTerm(g, imt, defaults) ==
    <<Ev("site_factors", "default", EvaluatedFor(g, imt))>>
      \o DefaultSteps(defaults, EvaluatedFor(g, imt))
      \o DefaultSteps(defaults, EvaluatedFor(g, imt))
      \o <<Ev("eval", g, EvaluatedFor(g, imt)),
           Ev("add_site", g, EvaluatedFor(g, imt))>>
      \o (IF EvaluatedFor(g, imt) # imt THEN <<Ev("psa102pgv", g, imt)>> ELSE <<>>)
      \o <<Ev("imc", g, imt), Ev("accumulate", g, imt)>>

\* a set of leaf models without a cutoff distance has been evaluated
EvaluatedLeaves ==
    /\ op = "evaluate"
    /\ ret.ok
    /\ obj.kind = "multi"
    /\ ~obj.m.HAS_CUTOFF_DISTANCE
    /\ \A i \in DOMAIN obj.m.GMPES : obj.m.GMPES[i].kind = "leaf"

\* C17: in the member loop a site adjustment is added to a member's mean if
\* and only if the member lacks a native site term, the adjustment comes
\* from the default site models, and for every member the steps are, in
\* order: model evaluation, site adjustment (if any), component conversion,
\* accumulation; in the PGV conversion path the adjustment is computed for
\* 1.0 s spectral acceleration and added before the conversion to PGV
C17_StepOrder ==
    EvaluatedLeaves =>
      ret.log =
        Concat([i \in DOMAIN obj.m.GMPES |->
                  IF "vs30" \in Catalog[obj.m.GMPES[i].name].REQUIRES_SITES_PARAMETERS
                  THEN StepsWithSiteTerm(obj.m.GMPES[i].name, args.imt)
                  ELSE StepsWithoutSiteTerm(obj.m.GMPES[i].name, args.imt,
                                            obj.m.DEFAULT_GMPES_FOR_SITE.val)])

\* a set holding the model without a site term and without PGV has been
\* evaluated for PGV, next to a model with a site term
C17_Reached ==
    /\ EvaluatedLeaves
    /\ args.imt = PGV
    /\ Leaf("gC") \in Range(obj.m.GMPES)
    /\ Leaf("gA") \in Range(obj.m.GMPES)

(***************************************************************************)
(* The PGV conversion path                                                 *)
(***************************************************************************)
\* a set of leaf models has been evaluated for PGV
EvaluatedForPGV ==
    /\ EvaluatedLeaves
    /\ args.imt = PGV

\* C18: when PGV is requested and a member does not list PGV, the member is
\* evaluated for 1.0 s spectral acceleration and never directly for PGV,
\* and its contribution is the conversion of that result: the converted
\* mean and, for each requested uncertainty type, the standard deviation
\* converted from the member's 1.0 s standard deviation of that same type;
\* a member that lists PGV is evaluated directly
C18_PGVFromPSA10 ==
    EvaluatedForPGV =>
      /\ \A i \in DOMAIN obj.m.GMPES :
           \E g \in {obj.m.GMPES[i].name} :
             IF "PGV" \in Catalog[g].DEFINED_FOR_INTENSITY_MEASURE_TYPES
             THEN Ev("eval", g, PGV) \in Range(ret.log)
             ELSE /\ Ev("eval", g, SA(10)) \in Range(ret.log)
                  /\ Ev("eval", g, PGV) \notin Range(ret.log)
                  /\ Ev("psa102pgv", g, PGV) \in Range(ret.log)
      /\ \E mm \in {AllMoments(obj.m, CtxOf(args.b), PGV, args.stddev_types)} :
           \A k \in DOMAIN args.b.sites.vs30 :
             /\ ret.mean.data[k] = WeightedMean(mm, obj.m.WEIGHTS, k)
             /\ \A j \in 1..Len(args.stddev_types) :
                  Square(ret.sd[j].data[k])
                    = TotalVariance(mm, obj.m.WEIGHTS, j, k)

\* a set holding a model without PGV has been evaluated for PGV and two
\* uncertainty types
C18_Reached ==
    /\ EvaluatedForPGV
    /\ Leaf("gB") \in Range(obj.m.GMPES)
    /\ args.stddev_types = <<"Total", "Inter">>

(***************************************************************************)
(* The caller's bundles after a failed evaluation                          *)
(***************************************************************************)
\* an evaluation has failed after the shape check: the requested
\* uncertainty types are not all available, or a member raised
FailedPastShapeCheck ==
    /\ op = "evaluate"
    /\ ~ret.ok
    /\ Cardinality(ShapeSet(args.b)) = 1

\* C20: if evaluate fails with the unsupported-uncertainty-type error or
\* with an error raised while evaluating a member, the caller's site and
\* distance arrays keep their original shape rather than the flattened one
C20_FailureKeepsShapes ==
    FailedPastShapeCheck =>
      /\ ShapesKept(args.b.sites, bundles.sites)
      /\ ShapesKept(args.b.dists, bundles.dists)

\* an evaluation on two-dimensional arrays has failed with the
\* unsupported-uncertainty-type error
C20_Reached ==
    /\ FailedPastShapeCheck
    /\ ret.err = "Requested an unavailable stddev_type."
    /\ Len(args.b.sites.shape.vs30) = 2

(***************************************************************************)
(* The calls of an evaluation, step by step.  A frame of the stack is a    *)
(* call in progress: of get_mean_and_stddevs on a set ("eval", with the    *)
(* pass of __get_mean_and_stddevs it is in) or of get_site_factors         *)
(* ("factors").  The top frame is the one running; the frames below wait   *)
(* for it to return.  No call catches an exception, so a raise ends the    *)
(* client's call.  The steps follow the calls and the failures only: the   *)
(* members' values do not decide which call is made next.  Inside the      *)
(* client's call the arrays are flat and the depth parameters are set, so  *)
(* the copy of the sites that get_site_factors makes has the shapes of     *)
(* the caller's bundles.                                                   *)
(***************************************************************************)
\* the stack depth at which no further call is made
MaxStack == 8

EvalFrame(self, imt, stddev_types) ==
    [kind |-> "eval", self |-> self, tmp |-> NoObj, imt |-> imt,
     types |-> stddev_types, large |-> FALSE, i |-> 0, pc |-> "start",
     shape |-> <<>>]

FactorsFrame(self, imt) ==
    [kind |-> "factors", self |-> self, tmp |-> NoObj, imt |-> imt,
     types |-> <<>>, large |-> FALSE, i |-> 0, pc |-> "make", shape |-> <<>>]

Top == stack[Len(stack)]

Below == SubSeq(stack, 1, Len(stack) - 1)

SetTop(f) == [stack EXCEPT ![Len(stack)] = f]

Running(kind, pcs) ==
    /\ op = "calling"
    /\ stack # <<>>
    /\ Top.kind = kind
    /\ Top.pc \in pcs

\* the exception propagates to the client
Raising(msg, log) ==
    /\ op' = "called"
    /\ ret' = [ok |-> FALSE, err |-> msg, log |-> log]
    /\ stack' = <<>>

\* the caller of a returning get_mean_and_stddevs goes on
Resumed(rest) ==
    IF rest = <<>> THEN rest
    ELSE [rest EXCEPT ![Len(rest)].pc =
            IF @ = "first" THEN "second"
            ELSE IF @ = "second" THEN "done" ELSE "convert"]

\* isinstance(imt, PGV) and "PGV" not in gmpe_imts, for the member that
\* frame f is at
ViaPSA10(f) ==
    /\ f.imt = PGV
    /\ "PGV" \notin Attr(f.self.GMPES[f.i]).DEFINED_FOR_INTENSITY_MEASURE_TYPES

\* the measure the member is evaluated for
MemberImt(f) == IF ViaPSA10(f) THEN SA(10) ELSE f.imt

\* the weights of the pass that frame f is in
PassWeights(f) ==
    IF f.large THEN f.self.WEIGHTS_LARGE_DISTANCE ELSE Some(f.self.WEIGHTS)

\* the client calls get_mean_and_stddevs on the constructed MultiGMPE
BeginEvaluate(Imts, Types, Bs) ==
    /\ op \in {"from_list", "from_config"}
    /\ obj.kind = "multi"
    /\ \E imt \in Imts, stddev_types \in Types, b \in Bs :
         /\ op' = "calling"
         /\ args' = [imt |-> imt, stddev_types |-> stddev_types, b |-> b]
         /\ ret' = [ok |-> TRUE, err |-> "", log |-> <<>>]
         /\ bundles' = b
         /\ stack' = <<EvalFrame(obj.m, imt, stddev_types)>>
    /\ UNCHANGED obj

\* __get_mean_and_stddevs up to the member loop: the shape check, the
\* flattening, the check of the requested uncertainty types
PassStart ==
    /\ Running("eval", {"start"})
    /\ IF Cardinality(ShapeSet(bundles)) # 1
       THEN /\ Raising("All sites and dists elements must have same shape.",
                       ret.log)
            /\ UNCHANGED bundles
       ELSE /\ bundles' = Flatten(bundles)
            /\ IF ~SdAvailable(Top.self.DEFINED_FOR_STANDARD_DEVIATION_TYPES,
                               Top.types)
               THEN Raising("Requested an unavailable stddev_type.", ret.log)
               ELSE /\ stack' = SetTop([Top EXCEPT
                                  !.pc = "member", !.i = 1,
                                  !.shape = CHOOSE s \in ShapeSet(bundles) : TRUE])
                    /\ UNCHANGED <<op, ret>>
    /\ UNCHANGED <<args, obj>>

\* the head of the loop body: the depth parameters, and the call of
\* get_site_factors for a member without a site term
MemberStart ==
    /\ Running("eval", {"member"})
    /\ Top.i <= Len(Top.self.GMPES)
    /\ Top.self.HAS_SITE[Top.i] \/ Len(stack) < MaxStack
    /\ bundles' = set_sites_depth_parameters(bundles)
    /\ IF Top.self.HAS_SITE[Top.i]
       THEN /\ stack' = SetTop([Top EXCEPT !.pc = "eval"])
            /\ UNCHANGED ret
       ELSE /\ stack' = Append(SetTop([Top EXCEPT !.pc = "factors"]),
                               FactorsFrame(Top.self, MemberImt(Top)))
            /\ ret' = [ret EXCEPT !.log =
                         Append(@, Ev("site_factors", "default", MemberImt(Top)))]
    /\ UNCHANGED <<op, args, obj>>

\* get_site_factors builds the set of the default site models
FactorMake ==
    /\ Running("factors", {"make"})
    /\ \E made \in {TmpSet(Top.self, TRUE)} :
         IF ~made.ok
         THEN Raising(made.err, ret.log)
         ELSE /\ stack' = SetTop([Top EXCEPT !.tmp = made.obj, !.pc = "first"])
              /\ UNCHANGED <<op, ret>>
    /\ UNCHANGED <<args, obj, bundles>>

\* get_site_factors calls tmp.get_mean_and_stddevs, on the sites and then
\* on ref_sites
FactorEval ==
    /\ Running("factors", {"first", "second"})
    /\ Len(stack) < MaxStack
    /\ stack' = Append(stack,
                  EvalFrame(Top.tmp, Top.imt,
                            TypeList(Top.tmp.DEFINED_FOR_STANDARD_DEVIATION_TYPES)))
    /\ UNCHANGED <<op, args, ret, obj, bundles>>

\* get_site_factors returns lmean - lmean_ref
FactorReturn ==
    /\ Running("factors", {"done"})
    /\ stack' = [Below EXCEPT ![Len(Below)].pc = "eval"]
    /\ UNCHANGED <<op, args, ret, obj, bundles>>

\* gmpe.get_mean_and_stddevs of the member: a leaf model answers at once,
\* a nested MultiGMPE is called
MemberEval ==
    /\ Running("eval", {"eval"})
    /\ \E gmpe \in {Top.self.GMPES[Top.i]} :
         IF gmpe.kind = "leaf"
         THEN \E r \in {LeafEval(gmpe.name, CtxOf(args.b), MemberImt(Top),
                                 Top.types)} :
                IF ~r.ok
                THEN Raising(r.err, ret.log \o r.log)
                ELSE /\ stack' = SetTop([Top EXCEPT !.pc = "convert"])
                     /\ ret' = [ret EXCEPT !.log = @ \o r.log]
                     /\ UNCHANGED op
         ELSE /\ Len(stack) < MaxStack
              /\ stack' = Append(stack,
                            EvalFrame(gmpe.obj, MemberImt(Top), Top.types))
              /\ UNCHANGED <<op, ret>>
    /\ UNCHANGED <<args, obj, bundles>>

\* the rest of the loop body, from the addition of the site factors to the
\* weighted sums: the steps it takes and the failure it ends with, if any
ConvertSteps(f, n, log) ==
    With(WhoIs(f.self.GMPES[f.i]), LAMBDA who :
    With(IF f.self.HAS_SITE[f.i] THEN log
         ELSE Append(log, Ev("add_site", who, MemberImt(f))), LAMBDA log2 :
      IF ViaPSA10(f) /\ Len(f.types) = 0
      THEN [err |-> "IndexError: psa10sd[0]", log |-> log2]
      ELSE
      With(IF ViaPSA10(f) THEN Append(log2, Ev("psa102pgv", who, f.imt))
           ELSE log2, LAMBDA log3 :
        IF ViaPSA10(f) /\ Len(f.types) > n
        THEN [err |-> "IndexError: lsd[j]", log |-> log3]
        ELSE
        With(Append(log3, Ev("imc", who, f.imt)), LAMBDA log4 :
          IF ~PassWeights(f).given
          THEN [err |-> "TypeError: 'NoneType' object is not subscriptable",
                log |-> log4]
          ELSE IF f.i > Len(PassWeights(f).val)
          THEN [err |-> "IndexError: wts[i]", log |-> log4]
          ELSE [err |-> "",
                log |-> Append(log4, Ev("accumulate", who, f.imt))]))))

MemberAccumulate ==
    /\ Running("eval", {"convert"})
    /\ \E c \in {ConvertSteps(Top, Len(args.b.sites.vs30), ret.log)} :
         IF c.err # ""
         THEN Raising(c.err, c.log)
         ELSE /\ stack' = SetTop([Top EXCEPT !.pc = "member", !.i = @ + 1])
              /\ ret' = [ret EXCEPT !.log = c.log]
              /\ UNCHANGED op
    /\ UNCHANGED <<args, obj, bundles>>

\* the near-field pass returns and get_mean_and_stddevs, the set having a
\* CUTOFF_DISTANCE, starts the far-field pass
FarPass ==
    /\ Running("eval", {"member"})
    /\ Top.i > Len(Top.self.GMPES)
    /\ ~Top.large
    /\ Top.self.HAS_CUTOFF_DISTANCE
    /\ bundles' = Restore(bundles, Top.shape)
    /\ stack' = SetTop([Top EXCEPT !.large = TRUE, !.pc = "start", !.i = 0])
    /\ UNCHANGED <<op, args, ret, obj>>

\* the last pass returns, and get_mean_and_stddevs with it
PassReturn ==
    /\ Running("eval", {"member"})
    /\ Top.i > Len(Top.self.GMPES)
    /\ Top.large \/ ~Top.self.HAS_CUTOFF_DISTANCE
    /\ bundles' = Restore(bundles, Top.shape)
    /\ stack' = Resumed(Below)
    /\ op' = IF Below = <<>> THEN "called" ELSE op
    /\ UNCHANGED <<args, ret, obj>>

\* a step of the call in progress
Step ==
    \/ PassStart
    \/ MemberStart
    \/ FactorMake
    \/ FactorEval
    \/ FactorReturn
    \/ MemberEval
    \/ MemberAccumulate
    \/ FarPass
    \/ PassReturn

(***************************************************************************)
(* SpecCalls: sets built by from_list (members with and without a site     *)
(* term; default site models with a site term, without one, and a nested   *)
(* set with default site models of its own) and by from_config (sets of    *)
(* sets, with and without a cutoff distance), then evaluated step by step. *)
(* SpecCallsFair adds that a call in progress keeps running: the           *)
(* evaluation is one thread of control and nothing in it waits.            *)
(***************************************************************************)
\* a set whose member has no site term, with a default site model
NestedDefault ==
    Nested(from_list(<<Leaf("gC")>>, <<One>>, "Larger", Some(<<Leaf("gA")>>),
                     Absent, REFERENCE_VS30_DEFAULT).obj)

CallMembers == SeqsUpTo({Leaf("gA"), Leaf("gC")}, MaxMembers)

CallWeights == {EqualWeights(k) : k \in 1..MaxMembers}

CallDefaults ==
    {Absent, Some(<<Leaf("gA")>>), Some(<<Leaf("gC")>>), Some(<<NestedDefault>>)}

CallConfs ==
    Confs({"Larger"},
          SubConfs({<<<<"gB", "gC">>, <<Rat(1, 2), Rat(1, 2)>>>>},
                   {Absent, Some(<<Rat(3, 4), Rat(1, 4)>>)},
                   {Absent, Some(Int2Num(CutoffKm))},
                   {Absent, Some(<<"gA">>)},
                   {Absent}),
          {<<Rat(1, 2), Rat(1, 2)>>})

BundlesCalls ==
    BundlesOf({<<NSites, 1>>}, {<<NSites, 1>>},
              {[i \in 1..NSites |-> IF i = 1 THEN 360 ELSE 760]},
              {[i \in 1..NSites |-> IF i = 1 THEN 20 ELSE 80]})

NextCalls ==
    \/ FromListCall(CallMembers, CallWeights, {"Larger"}, CallDefaults, {Absent})
    \/ FromConfigCall(CallConfs)
    \/ BeginEvaluate({PGA, PGV}, {<<"Total">>, <<"Intra">>}, BundlesCalls)
    \/ Step

SpecCalls == Init /\ [][NextCalls]_vars

SpecCallsFair == Init /\ [][NextCalls]_vars /\ WF_vars(Step)

(***************************************************************************)
(* Termination of an evaluation                                            *)
(***************************************************************************)
RECURSIVE Nesting(_)
\* the nesting depth of a set: one more than that of the deepest set among
\* its members and its default site models
Nesting(m) ==
    1 + SetMax({0}
          \cup {Nesting(m.GMPES[i].obj) :
                  i \in {k \in DOMAIN m.GMPES : m.GMPES[k].kind = "set"}}
          \cup {Nesting(m.DEFAULT_GMPES_FOR_SITE.val[i].obj) :
                  i \in {k \in DOMAIN m.DEFAULT_GMPES_FOR_SITE.val :
                           m.DEFAULT_GMPES_FOR_SITE.val[k].kind = "set"}})

\* the set of default site models that get_site_factors built has a site
\* term in every member, and its own evaluation calls get_site_factors no
\* further
DefaultSetOneLevel ==
    \A p \in DOMAIN stack :
       (stack[p].kind = "factors" /\ stack[p].pc # "make") =>
          /\ \A i \in DOMAIN stack[p].tmp.GMPES : stack[p].tmp.HAS_SITE[i]
          /\ p + 1 \in DOMAIN stack => stack[p + 1].kind = "eval"
          /\ p + 2 \in DOMAIN stack => stack[p + 2].kind # "factors"

\* the calls in progress are at most three for each level of nesting: the
\* evaluation of a set, get_site_factors, the evaluation of the default set
DepthBounded ==
    op = "calling" =>
      /\ Len(stack) <= 3 * Nesting(obj.m)
      /\ Len(stack) < MaxStack

\* C19: every evaluate call on a constructed set terminates, returning or
\* failing; the set of the default site models is built without default
\* site models of its own, so that its evaluation never calls
\* get_site_factors again (a default model without a site term makes the
\* construction of that set fail), and the depth of the calls is bounded by
\* the nesting depth of the set
C19_EvaluateTerminates ==
    /\ [](DefaultSetOneLevel /\ DepthBounded)
    /\ (op = "calling") ~> (op = "called")

\* the evaluation of a set nested in another has called get_site_factors
\* and is in the member loop of the set of the default site models
C19_Reached ==
    /\ op = "calling"
    /\ Len(stack) >= 4
    /\ stack[Len(stack) - 1].kind = "factors"
    /\ Top.pc = "member"

(***************************************************************************)
(* The far-field weights of a set assembled by from_config                 *)
(***************************************************************************)
\* one weight per member model, summing to one within the tolerance
WellFormedWeights(m, wts) ==
    /\ wts.given
    /\ Len(wts.val) = Len(m.GMPES)
    /\ ~WeightSumOff(wts.val)

\* the member sets with a CUTOFF_DISTANCE of an assembled set whose
\* evaluation has returned: the sets whose far-field pass was made
FarFieldEvaluated ==
    IF op = "evaluate" /\ ret.ok /\ obj.kind = "multi"
    THEN {obj.m.GMPES[i].obj :
            i \in {k \in DOMAIN obj.m.GMPES :
                     /\ obj.m.GMPES[k].kind = "set"
                     /\ obj.m.GMPES[k].obj.HAS_CUTOFF_DISTANCE}}
    ELSE {}

\* C21: on every set for which evaluate makes a far-field evaluation
\* (CUTOFF_DISTANCE set by from_config) the far-field weights satisfy the
\* invariant of the near-field ones, one weight per member model and a sum
\* of 1.0 within 1e-7, and the near-field weights satisfy it as well
C21_FarWeightsInvariant ==
    \A m \in FarFieldEvaluated :
       /\ WellFormedWeights(m, Some(m.WEIGHTS))
       /\ WellFormedWeights(m, m.WEIGHTS_LARGE_DISTANCE)

\* a far-field evaluation has returned for a set assembled with a cutoff
\* distance and two far-field weights for its two members
C21_Reached ==
    \E m \in FarFieldEvaluated :
       /\ m.WEIGHTS_LARGE_DISTANCE.given
       /\ Len(m.WEIGHTS_LARGE_DISTANCE.val) = 2
       /\ Len(m.GMPES) = 2

====
